---- MODULE Spec2Model ----
(***************************************************************************)
(* Multi-device Redis queue worker for ATOL fiscal registers               *)
(* (src/run_queue.py): the router loop listen_to_redis, the per-device     *)
(* DeviceWorker, and CommandProcessor.process_command.                     *)
(*                                                                         *)
(* Spec      the router loop with the connection, payment and unknown      *)
(*           command handlers, executed one device call at a time.         *)
(* SpecRead  process_command on the record-read commands (TLV streams).    *)
(* SpecShift      shift_open and shift_close, with the cashier resolution. *)
(* SpecReceipt    sequences of receipt commands on one device.             *)
(* SpecConnection sequences of connection commands on one device.          *)
(* SpecJournal    read_last_document_journal and its TLV scan.             *)
(* SpecJournalFair  SpecJournal with the worker's thread always stepping.  *)
(* SpecErrors     one Command on a device that returns any result code.    *)
(* SpecPrint      the print commands and their optional parameters.        *)
(* SpecFn         query_registration_info and query_fn_info.               *)
(* SpecCashier    cashier Commands with a store that changes in between.   *)
(* SpecQuery      one query Command (selector, query call, fields).        *)
(* SpecSteps      sequences of Commands with several checked calls each.   *)
(* SpecRouting    the router loop, Commands with a device_id of their own. *)
(***************************************************************************)
EXTENDS Naturals, Integers, Sequences, FiniteSets, TLC

VARIABLES
    pc,            \* position of the single thread of listen_to_redis
    running,       \* FALSE once an exception has left the router loop
    nmsgs,         \* number of bus messages taken from pubsub.listen() so far
    received,      \* the bus messages taken so far, in arrival order
    message,       \* the bus message being handled
    worker,        \* device_id of the DeviceWorker handling `message`
    processor,     \* DeviceWorker.processor, per device
    session,       \* the driver session (fptr) owned by each processor
    published,     \* per channel, the payloads published with r.publish
    errlog,        \* what logger.error recorded: <<message number, kind>>
    trace,         \* device calls and publications, in the order they happened
    command_data,  \* process_command: its argument
    response,      \* process_command: the response dict being built
    script,        \* process_command: the statements of the handler still to run
    locals,        \* process_command: values read from the device
    exc,           \* the exception in flight
    delivered,     \* record reads: the records readNextRecord has delivered
    records,       \* record reads: the list being filled (tlv_records, ...)
    rstate,        \* record reads: what happened to the device-side iterator
    store,         \* the external key-value store (Redis hashes) and its reachability
    returned       \* the Responses process_command has returned, in order

routerVars == <<pc, running, nmsgs, received, message, worker, processor, published, errlog>>
procVars   == <<session, trace, command_data, response, script, locals, exc>>
readVars   == <<delivered, records, rstate>>
envVars    == <<store, returned>>
vars       == <<routerVars, procVars, readVars, envVars>>

(***************************************************************************)
(* Python values                                                           *)
(***************************************************************************)
None == "None"
EmptyDict == [k \in {} |-> None]
dict_get(d, k, default) == IF k \in DOMAIN d THEN d[k] ELSE default

\* str and bytes objects: b"x" and "x" are different values and different keys.
Str(s) == [t |-> "str", s |-> s]
Bytes(s) == [t |-> "bytes", s |-> s]

\* bytes.decode('utf-8'), str.encode('utf-8') on the texts used here.
decode(b) == Str(b.s)
encode(u) == Bytes(u.s)

\* settings.cashier_name, settings.cashier_inn (src/settings.py defaults).
settings == [cashier_name |-> "Kassir", cashier_inn |-> ""]

\* No exception.
NoneRaised == "none"

(***************************************************************************)
(* Bounds and input sets                                                   *)
(***************************************************************************)
MaxMessages == 2
Devices == {"d1", "d2"}
CommandIds == {"c1", "c2"}

command_channel(device_id) == "command_fr_channel_" \o device_id
response_channel(device_id) == "command_fr_channel_" \o device_id \o "_response"

\* Texts a bus message can carry (decode_responses=True: data is a str).
PingText == [kind |-> "ping"]
GarbageText == [kind |-> "garbage"]
\* What a subscription confirmation carries: the number of subscribed channels.
SubscriptionCount == [kind |-> "count"]
JsonText(v) == [kind |-> "json", value |-> v]
JsonArray == [type |-> "array"]
JsonObject(o) == [type |-> "object", obj |-> o]

json_loads_lenient(text) ==
    IF text.kind = "json" THEN [ok |-> TRUE, value |-> text.value]
    ELSE [ok |-> TRUE, value |-> JsonObject(EmptyDict)]

\* json.loads: a text that is not JSON raises JSONDecodeError ("ping" is not JSON
\* either); a JSON text gives the value it denotes.
json_loads(text) ==
    IF text.kind = "json" THEN [ok |-> TRUE, value |-> text.value]
    ELSE [ok |-> FALSE, value |-> JsonArray]

\* json.dumps of a response dict: the JSON object with the same four keys.
json_dumps(resp) == JsonText(JsonObject(resp))

\* A JSON number as the Python value json.loads makes of it (a JSON string, an
\* amount given as text, becomes a str).
Number(n) == [t |-> "number", n |-> n]

PaymentKwargs == [payment_type |-> 0, sum |-> Number(100)]
CommandShapes ==
    { <<"bogus", EmptyDict>>,
      <<"connection_is_opened", EmptyDict>>,
      <<"payment", EmptyDict>>,
      <<"payment", PaymentKwargs>> }

CommandObjects ==
    { [command_id |-> id, command |-> s[1], kwargs |-> s[2]] :
          id \in CommandIds, s \in CommandShapes }
    \cup { [command |-> "bogus", kwargs |-> EmptyDict] }

Payloads ==
    {PingText, GarbageText, JsonText(JsonArray)}
    \cup { JsonText(JsonObject(o)) : o \in CommandObjects }

BusMessages ==
    { [type |-> "message", channel |-> command_channel(d), data |-> p] :
          d \in Devices, p \in Payloads }
    \cup { [type |-> "subscribe", channel |-> command_channel(d),
            data |-> SubscriptionCount] :
          d \in Devices }

NoMessage == [type |-> "none"]

\* The driver session a new AtolDriver starts with: not connected, no receipt
\* open on the device. document and journal are the last closed document the
\* device keeps, as (tag, value) pairs and as the byte array it hands out.
NewSession == [opened |-> FALSE, receipt |-> "none", document |-> <<>>, journal |-> <<>>]

\* process_command's local variables before the handler has assigned them.
NoLocals ==
    [is_opened |-> FALSE, cashier_name |-> None, cashier_inn |-> None,
     shift_number |-> 0, fiscal_document_number |-> 0,
     tlv_list |-> <<>>, pos |-> 0, tlv_structures |-> <<>>,
     data |-> {}, fn_contains_uri |-> FALSE]
NoData == [kind |-> "null"]
NoResponse == [command_id |-> None, success |-> FALSE, message |-> None, data |-> NoData]

\* Exception and its subclasses, as raised in this program.
ExceptionClasses ==
    {"JSONDecodeError", "AtolDriverError", "KeyError", "ValueError", "TypeError",
     "AttributeError", "ConnectionError", "IndexError"}

(***************************************************************************)
(* The external store and CommandProcessor._get_cashier                    *)
(***************************************************************************)
\* redis.Redis(host=..., port=..., decode_responses=True) in listen_to_redis:
\* the one client, handed to every CommandProcessor.
decode_responses == TRUE

\* cashier_key = f"cashier:{device_id}"
cashier_key(device_id) == "cashier:" \o device_id

\* A Redis hash as the server keeps it: field names and values are bytes.
NoHash == [k \in {} |-> None]
CashierHash(name, inn) ==
    (Bytes("cashier_name") :> Bytes(name)) @@ (Bytes("cashier_inn") :> Bytes(inn))

\* redis_client.hgetall(key): the hash stored under the key ({} when there is
\* none); a client with decode_responses decodes field names and values to str.
hgetall(st, key) ==
    LET hash == IF key \in DOMAIN st.hashes THEN st.hashes[key] ELSE NoHash IN
    IF decode_responses
    THEN [k \in {decode(b) : b \in DOMAIN hash} |-> decode(hash[encode(k)])]
    ELSE hash

\* if cashier_name: (a non-empty value)
Truthy(v) == v \notin {"", None}

CashierCatchesNothing(e) == FALSE

\* except Exception as e: logger.warning(...) around the store read.
CashierCatches(e) == e.type \in ExceptionClasses

NotFound == [found |-> FALSE, raised |-> NoneRaised, name |-> "", inn |-> ""]

\* Priority 2 of _get_cashier, the body of its try: hgetall, then
\* cashier_data.get(b"cashier_name", b"").decode('utf-8') and the same for
\* cashier_inn (a str has no decode: AttributeError), then `if cashier_name`.
StoreLookup(device_id, st) ==
    IF ~st.up THEN [NotFound EXCEPT !.raised = "ConnectionError"]
    ELSE LET cashier_data == hgetall(st, cashier_key(device_id))
             name == dict_get(cashier_data, Bytes("cashier_name"), Bytes(""))
             inn == dict_get(cashier_data, Bytes("cashier_inn"), Bytes(""))
         IN  IF DOMAIN cashier_data = {} THEN NotFound
             ELSE IF name.t # "bytes" \/ inn.t # "bytes"
                  THEN [NotFound EXCEPT !.raised = "AttributeError"]
             ELSE IF Truthy(decode(name).s)
                  THEN [found |-> TRUE, raised |-> NoneRaised,
                        name |-> decode(name).s, inn |-> decode(inn).s]
             ELSE NotFound

\* _get_cashier(device_id, kwargs): kwargs, then the store, then settings.
\* raised names the exception that leaves the function (NoneRaised: none).
get_cashier(device_id, kwargs, st) ==
    IF "cashier_name" \in DOMAIN kwargs /\ Truthy(kwargs["cashier_name"])
    THEN [raised |-> NoneRaised, name |-> kwargs["cashier_name"],
          inn |-> dict_get(kwargs, "cashier_inn", "")]
    ELSE LET fromStore == StoreLookup(device_id, st) IN
         IF fromStore.raised # NoneRaised /\ ~CashierCatches([type |-> fromStore.raised])
         THEN [raised |-> fromStore.raised, name |-> "", inn |-> ""]
         ELSE IF fromStore.found
         THEN [raised |-> NoneRaised, name |-> fromStore.name, inn |-> fromStore.inn]
         ELSE [raised |-> NoneRaised, name |-> settings.cashier_name,
               inn |-> settings.cashier_inn]

(***************************************************************************)
(* CommandProcessor                                                        *)
(***************************************************************************)
Step(i, k) == [i |-> i, k |-> k]

\* One setParam statement for each of the settings, in order.
RECURSIVE SetSteps(_)
SetSteps(settings_) ==
    IF settings_ = <<>> THEN <<>>
    ELSE <<Step("set", Head(settings_))>> \o SetSteps(Tail(settings_))

\* for _ in range(n): one statement, n times.
RECURSIVE Repeat(_, _)
Repeat(st, n) == IF n <= 0 THEN <<>> ELSE <<st>> \o Repeat(st, n - 1)

\* The command names of process_command's if/elif chain that this model runs.
DispatchTable ==
    {"connection_open", "connection_close", "connection_is_opened",
     "shift_open", "shift_close",
     "receipt_open", "registration", "payment", "receipt_close", "receipt_cancel",
     "read_last_document_journal",
     "print_text", "print_barcode", "print_picture", "print_picture_by_number",
     "query_registration_info", "query_fn_info", "shift_print_x_report",
     "get_status", "get_cash_sum", "get_payment_sum", "query_last_receipt",
     "cash_income", "cash_outcome", "print_feed"}

UnknownCommandSucceeds ==
    <<Step("success", ""), Step("message", "unknown_command")>>

\* else: response['message'] = f"Неизвестная команда: {command}"
UnknownCommand == <<Step("message", "unknown_command")>>

\* cashier_name, cashier_inn = self._get_cashier(device_id, kwargs);
\* setParam(1021, cashier_name); if cashier_inn: setParam(1203, cashier_inn);
\* self._check_result(self.fptr.operatorLogin(), ...)
OperatorLogin ==
    <<Step("cashier", ""), Step("set", "1021"), Step("set_inn", "1203"),
      Step("check", "operatorLogin")>>

\* registration: for key, value in kwargs.items(): one setParam per known key.
RegistrationKeys ==
    <<"name", "price", "quantity", "tax_type", "payment_method", "payment_object">>

RegistrationParams(kwargs) ==
    SetSteps(SelectSeq(RegistrationKeys, LAMBDA k : k \in DOMAIN kwargs))

\* The optional parameters of the print commands ("Опциональные параметры"):
\* the kwarg and the device setting it is forwarded to.
PrintOptional(command) ==
    CASE command = "print_text" ->
            << <<"font", "FONT">>, <<"double_width", "FONT_DOUBLE_WIDTH">>,
               <<"double_height", "FONT_DOUBLE_HEIGHT">>, <<"linespacing", "LINESPACING">>,
               <<"brightness", "BRIGHTNESS">>, <<"defer", "DEFER">> >>
      [] command = "print_barcode" ->
            << <<"left_margin", "LEFT_MARGIN">>, <<"invert", "BARCODE_INVERT">>,
               <<"height", "HEIGHT">>, <<"print_text", "BARCODE_PRINT_TEXT">>,
               <<"correction", "BARCODE_CORRECTION">>, <<"version", "BARCODE_VERSION">>,
               <<"columns", "BARCODE_COLUMNS">>, <<"defer", "DEFER">> >>
      [] command = "print_picture" -> << <<"left_margin", "LEFT_MARGIN">> >>
      [] command = "print_picture_by_number" ->
            << <<"left_margin", "LEFT_MARGIN">>, <<"defer", "DEFER">> >>
      [] OTHER -> <<>>

ForwardsAlways(kwargs, key) == TRUE

\* if 'key' in kwargs: ...; if 'defer' in kwargs and kwargs['defer'] != 0: ...
Forwards(kwargs, key) ==
    key \in DOMAIN kwargs /\ (key = "defer" => kwargs[key] # 0)

\* One setParam for each optional parameter the test above lets through.
RECURSIVE SettingsOf(_)
SettingsOf(pairs) ==
    IF pairs = <<>> THEN <<>> ELSE <<Head(pairs)[2]>> \o SettingsOf(Tail(pairs))

OptionalParams(command, kwargs) ==
    SetSteps(SettingsOf(SelectSeq(PrintOptional(command),
                                  LAMBDA p : Forwards(kwargs, p[1]))))

\* data['<name>'] = self.fptr.getParam...(...): a field of the data a query
\* builds; try is the try block the statement is in, "" for none.
FieldStep(name, try) == [i |-> "field", k |-> name, try |-> try]

RECURSIVE Fields(_, _)
Fields(names, try) ==
    IF names = <<>> THEN <<>>
    ELSE <<FieldStep(Head(names), try)>> \o Fields(Tail(names), try)

\* The fields of query_registration_info, in the order of their accessors
\* (ffd_version stands for ffd_version and ffd_version_code, both made of one
\* getParamInt).
RegistrationInfoFields ==
    Fields(<<"fns_url", "organization_address", "organization_vatin", "organization_name",
             "organization_email", "payments_address", "registration_number",
             "machine_number", "ofd_vatin", "ofd_name",
             "taxation_systems", "agent_types", "ffd_version",
             "auto_mode_sign", "offline_mode_sign", "encryption_sign", "internet_sign",
             "service_sign", "bso_sign">>, "")
    \o Fields(<<"lottery_sign", "gambling_sign", "excise_sign",
                "machine_installation_sign">>, "try 1216")
    \o Fields(<<"trade_marked_products", "insurance_activity", "pawn_shop_activity",
                "vending", "catering", "wholesale">>, "try 1225")

\* The fields of query_fn_info (fn_type and fn_state stand for the field and
\* its _code twin).
FnInfoFields ==
    Fields(<<"fn_serial", "fn_version">>, "")
    \o Fields(<<"fn_execution">>, "try 1250")
    \o Fields(<<"fn_type", "fn_state", "fn_flags", "fn_need_replacement",
                "fn_resource_exhausted", "fn_memory_overflow", "fn_ofd_timeout",
                "fn_critical_error", "fn_contains_keys_updater_server_uri",
                "fn_keys_updater_server_uri">>, "")

DataThenQuery(selector, params, query, names) ==
    <<Step("set", selector)>> \o SetSteps(params)
    \o <<Step("data", "fields"), Step("check", query)>> \o Fields(names, "")

FieldsBeforeQuery(selector, params, query, names) ==
    <<Step("set", selector)>> \o SetSteps(params) \o Fields(names, "")
    \o <<Step("check", query)>>

\* The protocol of a query: setParam(LIBFPTR_PARAM_DATA_TYPE, ...) (an FN query:
\* LIBFPTR_PARAM_FN_DATA_TYPE), the parameters of the selector, the query call
\* under _check_result, then the accessors of the fields.
QueryProtocol(selector, params, query, names) ==
    <<Step("set", selector)>> \o SetSteps(params) \o <<Step("check", query)>>
    \o Fields(names, "")

ReceiptCloseWithoutDevice ==
    <<Step("success", ""), Step("data", "none"), Step("message", "receipt_close")>>

\* elif command == 'receipt_close'
ReceiptClose ==
    <<Step("check", "closeReceipt"), Step("success", ""), Step("data", "none"),
      Step("message", "receipt_close")>>

\* The statements of each branch of process_command's if/elif chain.
Handler(command, kwargs) ==
    CASE command = "connection_open" ->
            (IF "settings" \in DOMAIN kwargs /\ kwargs["settings"] # None
             THEN <<Step("set", "settings")>> ELSE <<>>)
            \o <<Step("check", "open"), Step("success", ""),
                 Step("message", "connection_open")>>
      [] command = "connection_is_opened" ->
            <<Step("get", "isOpened"), Step("success", ""),
              Step("message", "connection_is_opened"), Step("data", "is_opened")>>
      [] command = "payment" ->
            <<Step("require", "payment_type"), Step("set", "PAYMENT_TYPE"),
              Step("require", "sum"), Step("set", "PAYMENT_SUM"),
              Step("check", "payment"), Step("success", ""),
              Step("message", "payment")>>
      [] command = "connection_close" ->
            <<Step("check", "close"), Step("success", ""),
              Step("message", "connection_close")>>
      [] command = "shift_open" ->
            OperatorLogin
            \o <<Step("check", "openShift"), Step("check", "checkDocumentClosed"),
                 Step("get", "SHIFT_NUMBER"), Step("success", ""),
                 Step("message", "shift_open"), Step("data", "shift_number")>>
      [] command = "shift_close" ->
            OperatorLogin
            \o <<Step("set", "REPORT_TYPE"), Step("check", "report"),
                 Step("check", "checkDocumentClosed"), Step("success", ""),
                 Step("get", "SHIFT_NUMBER"), Step("get", "FISCAL_DOCUMENT_NUMBER"),
                 Step("data", "shift_close"), Step("message", "shift_close")>>
      [] command = "shift_print_x_report" ->
            OperatorLogin
            \o <<Step("set", "REPORT_TYPE"), Step("check", "report"),
                 Step("success", ""), Step("message", "shift_print_x_report")>>
      [] command = "receipt_open" ->
            OperatorLogin
            \o <<Step("require", "receipt_type"), Step("set", "RECEIPT_TYPE")>>
            \o (IF Truthy(dict_get(kwargs, "customer_contact", None))
                THEN <<Step("set", "RECEIPT_ELECTRONICALLY"),
                       Step("set", "BUYER_EMAIL_OR_PHONE")>>
                ELSE <<>>)
            \o <<Step("check", "openReceipt"), Step("success", ""),
                 Step("message", "receipt_open")>>
      [] command = "registration" ->
            RegistrationParams(kwargs)
            \o <<Step("check", "registration"), Step("success", ""),
                 Step("require", "name"), Step("message", "registration")>>
      [] command = "receipt_close" -> ReceiptClose
      [] command = "receipt_cancel" ->
            <<Step("check", "cancelReceipt"), Step("success", ""),
              Step("message", "receipt_cancel")>>
      [] command = "read_last_document_journal" ->
            <<Step("check", "getLastDocumentJournal"), Step("get", "TLV_LIST"),
              Step("scan", ""), Step("success", ""),
              Step("message", "read_last_document_journal"),
              Step("data", "tlv_structures")>>
      [] command = "print_text" ->
            <<Step("set", "TEXT"), Step("set", "ALIGNMENT"), Step("set", "TEXT_WRAP")>>
            \o OptionalParams(command, kwargs)
            \o <<Step("check", "printText"), Step("success", ""),
                 Step("message", "print_text")>>
      [] command = "print_barcode" ->
            <<Step("require", "barcode"), Step("set", "BARCODE"),
              Step("set", "BARCODE_TYPE"), Step("set", "ALIGNMENT"), Step("set", "SCALE")>>
            \o OptionalParams(command, kwargs)
            \o <<Step("check", "printBarcode"), Step("success", ""),
                 Step("message", "print_barcode")>>
      [] command = "print_picture" ->
            <<Step("require", "filename"), Step("set", "FILENAME"),
              Step("set", "ALIGNMENT"), Step("set", "SCALE_PERCENT")>>
            \o OptionalParams(command, kwargs)
            \o <<Step("check", "printPicture"), Step("success", ""),
                 Step("message", "print_picture")>>
      [] command = "print_picture_by_number" ->
            <<Step("require", "picture_number"), Step("set", "PICTURE_NUMBER"),
              Step("set", "ALIGNMENT")>>
            \o OptionalParams(command, kwargs)
            \o <<Step("check", "printPictureByNumber"), Step("success", ""),
                 Step("message", "print_picture_by_number")>>
      [] command = "query_registration_info" ->
            <<Step("set", "FN_DATA_TYPE"), Step("check", "fnQueryData")>>
            \o RegistrationInfoFields
            \o <<Step("success", ""), Step("message", "query_registration_info"),
                 Step("data", "fields")>>
      [] command = "query_fn_info" ->
            <<Step("set", "FN_DATA_TYPE"), Step("check", "fnQueryData")>>
            \o FnInfoFields
            \o <<Step("success", ""), Step("message", "query_fn_info"),
                 Step("data", "fields")>>
      [] command \in {"cash_income", "cash_outcome"} ->
            <<Step("require", "amount"), Step("set", "SUM"),
              Step("check", IF command = "cash_income" THEN "cashIncome" ELSE "cashOutcome"),
              Step("success", ""), Step("message", command)>>
      [] command = "print_feed" ->
            Repeat(Step("check", "printText"), dict_get(kwargs, "lines", 1))
            \o <<Step("success", ""), Step("message", "print_feed")>>
      [] command = "get_status" ->
            QueryProtocol("DATA_TYPE", <<>>, "queryData",
                          <<"model_name", "serial_number", "shift_state",
                            "cover_opened", "paper_present">>)
            \o <<Step("data", "fields"), Step("success", "")>>
      [] command = "get_cash_sum" ->
            QueryProtocol("DATA_TYPE", <<>>, "queryData", <<"cash_sum">>)
            \o <<Step("data", "fields"), Step("success", "")>>
      [] command = "get_payment_sum" ->
            <<Step("require", "payment_type"), Step("require", "receipt_type")>>
            \o QueryProtocol("DATA_TYPE", <<"PAYMENT_TYPE", "RECEIPT_TYPE">>, "queryData",
                             <<"sum">>)
            \o <<Step("data", "fields"), Step("success", "")>>
      [] command = "query_last_receipt" ->
            QueryProtocol("FN_DATA_TYPE", <<>>, "fnQueryData",
                          <<"document_number", "receipt_sum", "fiscal_sign", "date_time",
                            "receipt_type">>)
            \o <<Step("success", ""), Step("message", "query_last_receipt"),
                 Step("data", "fields")>>
      [] OTHER -> UnknownCommand

ResponseInitNoId(cd) ==
    [command_id |-> None, success |-> FALSE, message |-> None, data |-> NoData]

\* The response dict process_command starts from.
ResponseInit(cd) ==
    [command_id |-> dict_get(cd, "command_id", None),
     success |-> FALSE, message |-> None, data |-> NoData]

\* errors.py: the table of the device's error codes and their messages.
ErrorTable == (1 :> "Net svyazi s KKT") @@ (2 :> "Port zanyat")

\* errors.get_error_message(code): the table's message, or the message for an
\* unknown error.
get_error_message(code) ==
    IF code \in DOMAIN ErrorTable THEN <<ErrorTable[code]>> ELSE <<"Neizvestnaya oshibka">>

raises_never(result) == FALSE

raises_on_nonzero(result) == result # 0

\* _check_result: a negative result raises AtolDriverError.
check_result_raises(result) == result < 0

\* self.fptr.errorDescription(): the text the device has for its last error. A
\* text is a sequence of words.
errorDescription(code) == <<"device text of", ToString(code)>>

\* f"Ошибка {operation}: {error_description}", the message _check_result gives
\* the AtolDriverError (the operation's label is left out).
check_result_message(code) == <<"Oshibka">> \o errorDescription(code)

\* AtolDriverError.to_dict, of the error _check_result raises: error_description
\* was not given, so it is the message.
to_dict(code) ==
    [kind |-> "error",
     message |-> check_result_message(code),
     error_code |-> code,
     error_description |-> check_result_message(code)]

ExceptClauseWithoutData(resp, e) == [resp EXCEPT !.message = "error"]

\* process_command's except clause: the message is replaced, data is set for an
\* AtolDriverError only, success is left as it is.
ExceptClause(resp, e) ==
    [resp EXCEPT !.message = "error",
                 !.data = IF e.type = "AtolDriverError" THEN to_dict(e.code) ELSE @]

NoExc == [type |-> "none"]
Exc(t) == [type |-> t]
DriverExc(code) == [type |-> "AtolDriverError", code |-> code]

\* Where control goes after a statement: the next statement, or the return.
After(rest) == IF rest = <<>> THEN "return" ELSE "exec"

Call(op) == [msg |-> nmsgs, dev |-> worker, ev |-> "call", op |-> op]

\* A checked call of the device and the result code it returned.
Checked(op, result) ==
    [msg |-> nmsgs, dev |-> worker, ev |-> "call", op |-> op, result |-> result]

\* self.fptr.errorCode() and the code it returned.
ErrorCode(code) ==
    [msg |-> nmsgs, dev |-> worker, ev |-> "call", op |-> "errorCode", code |-> code]

\* kwargs['k']: KeyError when the key is missing.
StepRequire ==
    /\ pc = "exec" /\ script # <<>> /\ Head(script).i = "require"
    /\ LET kwargs == dict_get(command_data.obj, "kwargs", EmptyDict) IN
         IF Head(script).k \in DOMAIN kwargs
         THEN /\ script' = Tail(script)
              /\ pc' = After(Tail(script))
              /\ exc' = exc
         ELSE /\ exc' = Exc("KeyError")
              /\ pc' = "except"
              /\ script' = script
    /\ UNCHANGED <<running, nmsgs, received, message, worker, processor, published, errlog>>
    /\ UNCHANGED <<session, trace, command_data, response, locals>>
    /\ UNCHANGED <<readVars, envVars>>

\* fptr.setParam / fptr.setSettings; `if cashier_inn: setParam(1203, ...)` makes
\* the call only for a non-empty INN.
StepSet ==
    /\ pc = "exec" /\ script # <<>> /\ Head(script).i \in {"set", "set_inn"}
    /\ trace' = IF Head(script).i = "set_inn" /\ ~Truthy(locals.cashier_inn)
                THEN trace
                ELSE Append(trace, Call(Head(script).k))
    /\ script' = Tail(script)
    /\ pc' = After(Tail(script))
    /\ UNCHANGED <<running, nmsgs, received, message, worker, processor, published, errlog>>
    /\ UNCHANGED <<session, command_data, response, locals, exc>>
    /\ UNCHANGED <<readVars, envVars>>

SessionAfterProbe(s, op, result) ==
    IF op = "isOpened" THEN [s EXCEPT !.opened = TRUE] ELSE s

\* The session after a driver operation returned `result`.
SessionAfter(s, op, result) ==
    IF result < 0 THEN s
    ELSE CASE op = "open" -> [s EXCEPT !.opened = TRUE]
           [] op = "close" -> [s EXCEPT !.opened = FALSE]
           [] op = "openReceipt" -> [s EXCEPT !.receipt = "open"]
           [] op \in {"closeReceipt", "cancelReceipt"} -> [s EXCEPT !.receipt = "none"]
           [] OTHER -> s

\* self._check_result(self.fptr.<op>(), ...): the device answers 0 or an error;
\* for an error _check_result asks the device for its description and code.
CheckWith(Results, Codes) ==
    /\ pc = "exec" /\ script # <<>> /\ Head(script).i = "check"
    /\ \E result \in Results, code \in Codes :
         /\ trace' = IF check_result_raises(result)
                     THEN trace \o <<Checked(Head(script).k, result),
                                     Call("errorDescription"), ErrorCode(code)>>
                     ELSE Append(trace, Checked(Head(script).k, result))
         /\ session' = [session EXCEPT ![worker] = SessionAfter(@, Head(script).k, result)]
         /\ IF check_result_raises(result)
            THEN /\ exc' = DriverExc(code)
                 /\ pc' = "except"
                 /\ script' = script
            ELSE /\ script' = Tail(script)
                 /\ pc' = After(Tail(script))
                 /\ exc' = exc
    /\ UNCHANGED <<running, nmsgs, received, message, worker, processor, published, errlog>>
    /\ UNCHANGED <<command_data, response, locals>>
    /\ UNCHANGED <<readVars, envVars>>

\* The device that answers 0 or -1 and whose error code is 1.
OkOrError == -1..0
OneErrorCode == 1..1
StepCheck == CheckWith(OkOrError, OneErrorCode)

\* The result codes a checked call can return and the codes errorCode() can
\* report: negative, zero and positive results, codes of any kind.
ResultCodes == -2..1
ErrorCodes == 0..3

\* The device that answers any result code and reports any error code.
StepCheckAny == CheckWith(ResultCodes, ErrorCodes)

\* The values the device can report, and the byte arrays it can hand out.
ShiftNumbers == {1, 7}
DocumentNumbers == {41, 42}
ByteValues == {0, 1, 255}
MaxBytes == 10
\* The sequences of at most n elements of S.
RECURSIVE SeqsUpTo(_, _)
SeqsUpTo(S, n) ==
    IF n = 0 THEN {<<>>}
    ELSE LET shorter == SeqsUpTo(S, n - 1)
         IN  shorter \cup { Append(s, x) : s \in shorter, x \in S }

ByteArrays(n) == SeqsUpTo(ByteValues, n)

\* An accessor of the session whose value the handler keeps: fptr.isOpened(),
\* getParamInt(...), getParamByteArray(LIBFPTR_PARAM_TLV_LIST) (followed by
\* tlv_structures = [] and pos = 0).
StepGet ==
    /\ pc = "exec" /\ script # <<>> /\ Head(script).i = "get"
    /\ trace' = Append(trace, Call(Head(script).k))
    /\ session' = [session EXCEPT ![worker] = SessionAfter(@, Head(script).k, 0)]
    /\ CASE Head(script).k = "isOpened" ->
              locals' = [locals EXCEPT !.is_opened = session[worker].opened]
         [] Head(script).k = "SHIFT_NUMBER" ->
              \E n \in ShiftNumbers : locals' = [locals EXCEPT !.shift_number = n]
         [] Head(script).k = "FISCAL_DOCUMENT_NUMBER" ->
              \E n \in DocumentNumbers :
                  locals' = [locals EXCEPT !.fiscal_document_number = n]
         [] Head(script).k = "TLV_LIST" ->
              locals' = [locals EXCEPT !.tlv_list = session[worker].journal,
                                       !.pos = 0, !.tlv_structures = <<>>]
    /\ script' = Tail(script)
    /\ pc' = After(Tail(script))
    /\ UNCHANGED <<running, nmsgs, received, message, worker, processor, published, errlog>>
    /\ UNCHANGED <<command_data, response, exc>>
    /\ UNCHANGED <<readVars, envVars>>

DataWithMessage(k, loc) == [kind |-> "dict", message |-> k]

\* The value a handler assigns to response['data'].
DataOf(k, loc) ==
    CASE k = "is_opened" -> [kind |-> "dict", is_opened |-> loc.is_opened]
      [] k = "shift_number" -> [kind |-> "dict", shift_number |-> loc.shift_number]
      [] k = "shift_close" ->
            [kind |-> "dict", shift_number |-> loc.shift_number,
             fiscal_document_number |-> loc.fiscal_document_number]
      [] k = "tlv_structures" ->
            [kind |-> "dict", tlv_structures |-> loc.tlv_structures,
             raw_bytes |-> loc.tlv_list]
      [] k = "fields" -> [kind |-> "dict", fields |-> loc.data]
      [] OTHER -> NoData

\* An accessor call that fills a field of data, and whether it raised.
Accessed(name, raised) ==
    [msg |-> nmsgs, dev |-> worker, ev |-> "call", op |-> name, raised |-> raised]

\* The statements left when an exception leaves the try block: `except: pass`
\* goes on after the block.
AfterTry(rest, try) == SelectSeq(rest, LAMBDA st : ~("try" \in DOMAIN st /\ st.try = try))

\* data['<name>'] = self.fptr.getParam...(...): the accessor returns a value or
\* raises; inside a try block the exception skips the rest of the block, outside
\* it reaches process_command's except clause. fn_keys_updater_server_uri is
\* read only `if fn_contains_uri`.
StepField ==
    /\ pc = "exec" /\ script # <<>> /\ Head(script).i = "field"
    /\ LET f == Head(script) IN
         IF f.k = "fn_keys_updater_server_uri" /\ ~locals.fn_contains_uri
         THEN /\ script' = Tail(script)
              /\ pc' = After(Tail(script))
              /\ UNCHANGED <<trace, locals, exc>>
         ELSE \E raised \in BOOLEAN :
                /\ trace' = Append(trace, Accessed(f.k, raised))
                /\ IF ~raised
                   THEN /\ \E b \in BOOLEAN :
                             locals' = [locals EXCEPT
                                 !.data = @ \cup {f.k},
                                 !.fn_contains_uri =
                                     IF f.k = "fn_contains_keys_updater_server_uri"
                                     THEN b ELSE @]
                        /\ script' = Tail(script)
                        /\ pc' = After(Tail(script))
                        /\ exc' = exc
                   ELSE IF f.try # ""
                        THEN /\ script' = AfterTry(Tail(script), f.try)
                             /\ pc' = After(script')
                             /\ UNCHANGED <<locals, exc>>
                        ELSE /\ exc' = Exc("TypeError")
                             /\ pc' = "except"
                             /\ UNCHANGED <<script, locals>>
    /\ UNCHANGED <<running, nmsgs, received, message, worker, processor, published, errlog>>
    /\ UNCHANGED <<session, command_data, response>>
    /\ UNCHANGED <<readVars, envVars>>

\* format(v, ".2f"): a number is formatted, a str raises ValueError.
FormatsAsNumber(v) == v.t = "number"

\* The kwarg a handler's success message formats with {...:.2f}: kwargs['sum']
\* in payment, kwargs['amount'] in cash_income and cash_outcome.
FormattedKwarg(k) ==
    CASE k = "payment" -> "sum"
      [] k \in {"cash_income", "cash_outcome"} -> "amount"
      [] OTHER -> None

\* Whether building the message of handler k raises.
MessageRaises(k, kwargs) ==
    FormattedKwarg(k) # None /\ ~FormatsAsNumber(kwargs[FormattedKwarg(k)])

\* response['success'] = True, response['message'] = ..., response['data'] = ...
\* The f-string of a message is evaluated before the assignment.
StepAssign ==
    /\ pc = "exec" /\ script # <<>> /\ Head(script).i \in {"success", "message", "data"}
    /\ IF /\ Head(script).i = "message"
          /\ MessageRaises(Head(script).k, dict_get(command_data.obj, "kwargs", EmptyDict))
       THEN /\ exc' = Exc("ValueError")
            /\ pc' = "except"
            /\ UNCHANGED <<response, script>>
       ELSE /\ response' =
                 CASE Head(script).i = "success" -> [response EXCEPT !.success = TRUE]
                   [] Head(script).i = "message" ->
                        [response EXCEPT !.message = Head(script).k]
                   [] Head(script).i = "data" ->
                        [response EXCEPT !.data = DataOf(Head(script).k, locals)]
            /\ script' = Tail(script)
            /\ pc' = After(Tail(script))
            /\ exc' = exc
    /\ UNCHANGED <<running, nmsgs, received, message, worker, processor, published, errlog>>
    /\ UNCHANGED <<session, trace, command_data, locals>>
    /\ UNCHANGED <<readVars, envVars>>

AlwaysDefault(cd) == "default"

\* device_id = command_data.get('device_id', 'default')
DeviceIdOf(cd) == dict_get(cd, "device_id", "default")

\* Whether _get_cashier goes to the store: kwargs gave no cashier name.
ConsultsStore(kwargs) == ~("cashier_name" \in DOMAIN kwargs /\ Truthy(kwargs["cashier_name"]))

\* cashier_name, cashier_inn = self._get_cashier(device_id, kwargs); the trace
\* keeps the key of the hgetall call, when the call is made.
StepCashier ==
    /\ pc = "exec" /\ script # <<>> /\ Head(script).i = "cashier"
    /\ trace' = IF ConsultsStore(dict_get(command_data.obj, "kwargs", EmptyDict))
                THEN Append(trace, [msg |-> nmsgs, dev |-> worker, ev |-> "hgetall",
                                    op |-> cashier_key(DeviceIdOf(command_data.obj))])
                ELSE trace
    /\ LET r == get_cashier(DeviceIdOf(command_data.obj),
                            dict_get(command_data.obj, "kwargs", EmptyDict), store)
       IN  IF r.raised # NoneRaised
           THEN /\ exc' = Exc(r.raised)
                /\ pc' = "except"
                /\ UNCHANGED <<script, locals>>
           ELSE /\ locals' = [locals EXCEPT !.cashier_name = r.name, !.cashier_inn = r.inn]
                /\ script' = Tail(script)
                /\ pc' = After(Tail(script))
                /\ exc' = exc
    /\ UNCHANGED <<running, nmsgs, received, message, worker, processor, published, errlog>>
    /\ UNCHANGED <<session, command_data, response>>
    /\ UNCHANGED <<readVars, envVars>>

(***************************************************************************)
(* read_last_document_journal: the linear scan of the TLV byte array       *)
(***************************************************************************)
be16(lo, hi) == lo * 256 + hi

\* The byte array of a list of (tag, value) pairs: for each pair the tag in two
\* bytes, low byte first, the length of the value likewise, then the value.
RECURSIVE tlv_encode(_)
tlv_encode(pairs) ==
    IF pairs = <<>> THEN <<>>
    ELSE LET r == Head(pairs) IN
         <<r.tag % 256, r.tag \div 256, Len(r.value) % 256, Len(r.value) \div 256>>
         \o r.value \o tlv_encode(Tail(pairs))

\* b0 | (b1 << 8) on two bytes: the 16-bit little-endian number.
le16(lo, hi) == lo + hi * 256

\* list(tlv_list[a:b]) for 0 <= a <= len: the slice stops at the end of the list.
Slice(seq, a, b) ==
    LET stop == IF b < Len(seq) THEN b ELSE Len(seq)
    IN  SubSeq(seq, a + 1, stop)

HeaderNeverMissing(p, n) == FALSE

\* if pos + 4 > len(tlv_list): break
HeaderMissing(p, n) == p + 4 > n

ValueNeverMissing(p, length, n) == FALSE

\* if pos + length > len(tlv_list): break   (pos is already past the header)
ValueMissing(p, length, n) == p + length > n

\* One pass of `while pos < len(tlv_list)`: the loop ends, breaks, or appends
\* one structure. tlv_list[i] outside the list raises IndexError.
StepScan ==
    /\ pc = "exec" /\ script # <<>> /\ Head(script).i = "scan"
    /\ LET tlv_list == locals.tlv_list
           n == Len(tlv_list)
           pos == locals.pos
       IN  IF ~(pos < n) \/ HeaderMissing(pos, n)
           THEN /\ script' = Tail(script)
                /\ pc' = After(Tail(script))
                /\ UNCHANGED <<locals, exc>>
           ELSE IF pos + 4 > n
           THEN /\ exc' = Exc("IndexError")
                /\ pc' = "except"
                /\ UNCHANGED <<script, locals>>
           ELSE LET tag == le16(tlv_list[pos + 1], tlv_list[pos + 2])
                    length == le16(tlv_list[pos + 3], tlv_list[pos + 4])
                IN  IF ValueMissing(pos + 4, length, n)
                    THEN /\ locals' = [locals EXCEPT !.pos = pos + 4]
                         /\ script' = Tail(script)
                         /\ pc' = After(Tail(script))
                         /\ exc' = exc
                    ELSE /\ locals' =
                              [locals EXCEPT
                                 !.pos = pos + 4 + length,
                                 !.tlv_structures =
                                     Append(@, [tag |-> tag, length |-> length,
                                                value |-> Slice(tlv_list, pos + 4,
                                                                pos + 4 + length)])]
                         /\ UNCHANGED <<script, pc, exc>>
    /\ UNCHANGED <<running, nmsgs, received, message, worker, processor, published, errlog>>
    /\ UNCHANGED <<session, trace, command_data, response>>
    /\ UNCHANGED <<readVars, envVars>>

(***************************************************************************)
(* Record reads: read_fn_document, read_licenses, read_registration_document, *)
(* parse_complex_attribute, read_kkt_settings                              *)
(***************************************************************************)
MaxRecords == 2

TlvCommands == {"read_fn_document", "read_registration_document", "parse_complex_attribute"}
ReadCommands == TlvCommands \cup {"read_licenses", "read_kkt_settings"}

\* The tag types a device declares (LIBFPTR_PARAM_TAG_TYPE) and the setting
\* types (LIBFPTR_PARAM_SETTING_TYPE: number, bool, string, anything else).
TagTypes == 0..10
SettingTypes == {"ST_NUMBER", "ST_BOOL", "ST_STRING", "ST_OTHER"}

RecordTypes(command) ==
    CASE command \in TlvCommands -> TagTypes
      [] command = "read_kkt_settings" -> SettingTypes
      [] OTHER -> {"license"}

\* The kwarg each command reads before it touches the device.
RequiredKwarg(command) ==
    CASE command = "read_fn_document" -> {"document_number"}
      [] command = "read_registration_document" -> {"registration_number"}
      [] command = "parse_complex_attribute" -> {"tag_value"}
      [] OTHER -> {}

IntegerForAll(tag_type) ==
    IF tag_type \in 3..7 THEN "getParamInt" ELSE "getParamByteArray"

\* The accessor the TLV loops select for a declared tag type (the three loops
\* have the same if/elif chain).
TypedAccessor(tag_type) ==
    CASE tag_type \in {4, 5, 6, 7} -> "getParamInt"
      [] tag_type = 3 -> "getParamDouble"
      [] tag_type = 8 -> "getParamString"
      [] tag_type = 10 -> "getParamBool"
      [] OTHER -> "getParamByteArray"

\* The accessor read_kkt_settings selects for a setting type (None: no call).
SettingAccessor(setting_type) ==
    CASE setting_type = "ST_NUMBER" -> "getParamInt"
      [] setting_type = "ST_BOOL" -> "getParamBool"
      [] setting_type = "ST_STRING" -> "getParamString"
      [] OTHER -> None

\* The Python value an accessor returns for the record it is asked about.
AccessorValue(accessor, n) ==
    CASE accessor = "getParamInt" -> [kind |-> "int", of |-> n]
      [] accessor = "getParamDouble" -> [kind |-> "float", of |-> n]
      [] accessor = "getParamString" -> [kind |-> "str", of |-> n]
      [] accessor = "getParamBool" -> [kind |-> "bool", of |-> n]
      [] accessor = "getParamByteArray" -> [kind |-> "bytes", of |-> n]
      [] OTHER -> [kind |-> "None", of |-> n]

NoFallback(command) == FALSE

\* Whether the value of a record is read inside try/except (the TLV loops) with
\* the raw-byte accessor as the fallback.
HasFallback(command) == command \in TlvCommands

NoIterator ==
    [begun |-> 0, ended |-> 0, result |-> 0, typed_failed |-> {}, raw_failed |-> {}]

ReadCommand == dict_get(command_data.obj, "command", None)

\* The record the loop body is decoding: the last one delivered.
Current == Len(delivered)

\* kwargs[...], the setParam calls that select the records, and
\* self._check_result(self.fptr.beginReadRecords(), ...)
ReadBegin ==
    /\ pc = "read_begin"
    /\ IF ~(RequiredKwarg(ReadCommand) \subseteq DOMAIN dict_get(command_data.obj, "kwargs", EmptyDict))
       THEN /\ exc' = Exc("KeyError")
            /\ pc' = "except"
            /\ UNCHANGED <<trace, rstate>>
       ELSE \E result \in OkOrError :
            /\ trace' = trace \o <<Call("setParam"), Checked("beginReadRecords", result)>>
            /\ IF check_result_raises(result)
               THEN /\ exc' = DriverExc(-result)
                    /\ pc' = "except"
                    /\ rstate' = rstate
               ELSE /\ rstate' = [rstate EXCEPT !.begun = @ + 1]
                    /\ pc' = "read_info"
                    /\ exc' = exc
    /\ UNCHANGED <<running, nmsgs, received, message, worker, processor, published, errlog>>
    /\ UNCHANGED <<session, command_data, response, script, locals>>
    /\ UNCHANGED <<delivered, records>>
    /\ UNCHANGED envVars

\* records_id = getParamString(RECORDS_ID) (read_fn_document: document_type and
\* document_size first), then setParam(RECORDS_ID): an accessor may raise.
ReadInfo ==
    /\ pc = "read_info"
    /\ \E raised \in BOOLEAN :
         /\ trace' = Append(trace, Call("getParam"))
         /\ IF raised
            THEN /\ exc' = Exc("TypeError")
                 /\ pc' = "except"
            ELSE /\ exc' = exc
                 /\ pc' = "read_next"
    /\ UNCHANGED <<running, nmsgs, received, message, worker, processor, published, errlog>>
    /\ UNCHANGED <<session, command_data, response, script, locals>>
    /\ UNCHANGED <<readVars, envVars>>

AfterNextChecked(result) ==
    IF result = 0 THEN "read_header" ELSE IF result < 0 THEN "except" ELSE "read_end"

\* Where `while self.fptr.readNextRecord() == 0:` goes with the call's result:
\* into the body for 0, past the loop for any other code (the result is not
\* handed to _check_result).
AfterNext(result) == IF result = 0 THEN "read_header" ELSE "read_end"

\* while self.fptr.readNextRecord() == 0: the device delivers a record, or
\* answers a nonzero code (end of the records, or an error in mid-stream).
ReadNext ==
    /\ pc = "read_next"
    /\ trace' = Append(trace, Call("readNextRecord"))
    /\ \/ /\ Len(delivered) < MaxRecords
          /\ \E t \in RecordTypes(ReadCommand) :
               delivered' = Append(delivered, [type |-> t])
          /\ rstate' = [rstate EXCEPT !.result = 0]
          /\ pc' = AfterNext(0)
       \/ /\ \E code \in {-1, 1} :
               /\ rstate' = [rstate EXCEPT !.result = code]
               /\ pc' = AfterNext(code)
          /\ delivered' = delivered
    /\ UNCHANGED <<running, nmsgs, received, message, worker, processor, published, errlog>>
    /\ UNCHANGED <<session, command_data, response, script, locals, exc>>
    /\ UNCHANGED records
    /\ UNCHANGED envVars

\* The list entry of a record that has no value of its own (a license).
PlainEntry(n) == [index |-> n, type |-> delivered[n].type, tag_value |-> AccessorValue(None, n)]

\* The accessors read before the value: tag number, name, type and flags (a
\* setting's id, type and name; all four fields of a license). None is guarded.
ReadHeader ==
    /\ pc = "read_header"
    /\ trace' = Append(trace, Call("getParam"))
    /\ \E raised \in BOOLEAN :
         IF raised
         THEN /\ exc' = Exc("TypeError")
              /\ pc' = "except"
              /\ records' = records
         ELSE /\ exc' = exc
              /\ IF ReadCommand = "read_licenses"
                 THEN /\ records' = Append(records, PlainEntry(Current))
                      /\ pc' = "read_next"
                 ELSE /\ records' = records
                      /\ pc' = "read_value"
    /\ UNCHANGED <<running, nmsgs, received, message, worker, processor, published, errlog>>
    /\ UNCHANGED <<session, command_data, response, script, locals>>
    /\ UNCHANGED <<delivered, rstate>>
    /\ UNCHANGED envVars

EntryOfFirst(n, accessor) ==
    [index |-> 1, type |-> delivered[1].type, tag_value |-> AccessorValue(accessor, 1)]

\* The list entry appended for the record being decoded.
Entry(n, accessor) ==
    [index |-> n, type |-> delivered[n].type, tag_value |-> AccessorValue(accessor, n)]

\* The accessor chosen for the record being decoded.
ChosenAccessor ==
    IF ReadCommand \in TlvCommands THEN TypedAccessor(delivered[Current].type)
    ELSE SettingAccessor(delivered[Current].type)

\* The value of the record, read with the accessor of its declared type. When
\* the accessor raises, the TLV loops go to their except clause (the fallback);
\* read_kkt_settings has no try and the exception leaves the loop.
ReadValue ==
    /\ pc = "read_value"
    /\ IF ChosenAccessor = None
       THEN /\ records' = Append(records, Entry(Current, None))
            /\ pc' = "read_next"
            /\ UNCHANGED <<trace, exc, rstate>>
       ELSE /\ trace' = Append(trace, Call(ChosenAccessor))
            /\ \E raised \in BOOLEAN :
                 IF ~raised
                 THEN /\ records' = Append(records, Entry(Current, ChosenAccessor))
                      /\ pc' = "read_next"
                      /\ UNCHANGED <<exc, rstate>>
                 ELSE /\ records' = records
                      /\ rstate' = [rstate EXCEPT !.typed_failed = @ \cup {Current}]
                      /\ IF HasFallback(ReadCommand)
                         THEN /\ pc' = "read_fallback"
                              /\ exc' = exc
                         ELSE /\ pc' = "except"
                              /\ exc' = Exc("TypeError")
    /\ UNCHANGED <<running, nmsgs, received, message, worker, processor, published, errlog>>
    /\ UNCHANGED <<session, command_data, response, script, locals>>
    /\ UNCHANGED delivered
    /\ UNCHANGED envVars

\* except: tag_value = list(self.fptr.getParamByteArray(TAG_VALUE)); this call
\* is outside any try of the loop, so its exception leaves the loop.
ReadFallback ==
    /\ pc = "read_fallback"
    /\ trace' = Append(trace, Call("getParamByteArray"))
    /\ \E raised \in BOOLEAN :
         IF ~raised
         THEN /\ records' = Append(records, Entry(Current, "getParamByteArray"))
              /\ pc' = "read_next"
              /\ UNCHANGED <<exc, rstate>>
         ELSE /\ records' = records
              /\ rstate' = [rstate EXCEPT !.raw_failed = @ \cup {Current}]
              /\ pc' = "except"
              /\ exc' = Exc("TypeError")
    /\ UNCHANGED <<running, nmsgs, received, message, worker, processor, published, errlog>>
    /\ UNCHANGED <<session, command_data, response, script, locals>>
    /\ UNCHANGED delivered
    /\ UNCHANGED envVars

\* setParam(RECORDS_ID), self._check_result(self.fptr.endReadRecords(), ...),
\* then success, message and data.
ReadEnd ==
    /\ pc = "read_end"
    /\ rstate' = [rstate EXCEPT !.ended = @ + 1]
    /\ \E result \in OkOrError :
         /\ trace' = trace \o <<Call("setParam"), Checked("endReadRecords", result)>>
         /\ IF check_result_raises(result)
            THEN /\ exc' = DriverExc(-result)
                 /\ pc' = "except"
                 /\ response' = response
            ELSE /\ response' = [response EXCEPT
                                    !.success = TRUE, !.message = ReadCommand,
                                    !.data = [kind |-> "dict", records |-> records]]
                 /\ pc' = "return"
                 /\ exc' = exc
    /\ UNCHANGED <<running, nmsgs, received, message, worker, processor, published, errlog>>
    /\ UNCHANGED <<session, command_data, script, locals>>
    /\ UNCHANGED <<delivered, records>>
    /\ UNCHANGED envVars

(***************************************************************************)
(* DeviceWorker and listen_to_redis                                        *)
(***************************************************************************)
AnotherWorker(channel) == CHOOSE d \in Devices : command_channel(d) # channel

\* The worker whose command channel a message arrived on (the for/if/break).
WorkerFor(channel) ==
    IF \E d \in Devices : command_channel(d) = channel
    THEN CHOOSE d \in Devices : command_channel(d) = channel
    ELSE None

CatchesDecodeErrorOnly(e) == e.type = "JSONDecodeError"

\* The exceptions process_message's try statement catches:
\* except json.JSONDecodeError, then except Exception.
ProcessMessageCatches(e) == e.type = "JSONDecodeError" \/ e.type \in ExceptionClasses

\* What a raise inside process_message's try leads to: the error is logged and
\* process_message returns; an exception it does not catch leaves the loop.
Raised(e, kind) ==
    IF ProcessMessageCatches(e)
    THEN /\ errlog' = Append(errlog, <<nmsgs, kind>>)
         /\ running' = running
         /\ pc' = "listen"
    ELSE /\ errlog' = errlog
         /\ running' = FALSE
         /\ pc' = "crashed"

CatchesDriverErrorOnly(e) == e.type = "AtolDriverError"

\* The exceptions process_command's try statement catches: except Exception.
ProcessCommandCatches(e) == e.type \in ExceptionClasses

Event(ev, op) == [msg |-> nmsgs, dev |-> worker, ev |-> ev, op |-> op]

\* except Exception as e: the handler is abandoned and the response is returned;
\* an exception the clause does not catch propagates to process_message.
Except ==
    /\ pc = "except"
    /\ exc' = NoExc
    /\ script' = <<>>
    /\ IF ProcessCommandCatches(exc)
       THEN /\ response' = ExceptClause(response, exc)
            /\ pc' = "return"
            /\ UNCHANGED <<running, errlog>>
       ELSE /\ Raised(exc, "unexpected")
            /\ response' = response
    /\ trace' = IF ProcessCommandCatches(exc) THEN trace
                ELSE Append(trace, Event("raise", "process_command"))
    /\ UNCHANGED <<nmsgs, received, message, worker, processor, published>>
    /\ UNCHANGED <<session, command_data, locals>>
    /\ UNCHANGED <<readVars, envVars>>

ListenWhileBusy == pc \in {"listen", "exec"}

\* for message in pubsub.listen(): the next bus message is taken only when the
\* body of the loop has run for the previous one.
ListenReady == pc = "listen"

ListenFrom(Messages) ==
    /\ ListenReady /\ running /\ nmsgs < MaxMessages
    /\ \E m \in Messages :
         /\ message' = m
         /\ worker' = WorkerFor(m.channel)
         /\ pc' = IF WorkerFor(m.channel) = None THEN "listen" ELSE "process_message"
    /\ nmsgs' = nmsgs + 1
    /\ received' = Append(received, message')
    /\ UNCHANGED <<running, processor, published, errlog>>
    /\ UNCHANGED procVars
    /\ UNCHANGED <<readVars, envVars>>

\* The bus delivers any of the events of BusMessages.
Listen == ListenFrom(BusMessages)

NeverPing(m) == FALSE

\* if message.get('data') == 'ping': return
IsPing(m) == m.data = PingText

AnyType(m) == TRUE

\* if message.get('type') == 'message':
IsMessage(m) == m.type = "message"

\* process_message: a bus event that is not a message, or a ping, is ignored.
Ignore ==
    /\ pc = "process_message"
    /\ ~IsMessage(message) \/ IsPing(message)
    /\ pc' = "listen"
    /\ UNCHANGED <<running, nmsgs, received, message, worker, processor, published, errlog>>
    /\ UNCHANGED procVars
    /\ UNCHANGED <<readVars, envVars>>

\* command_data = json.loads(message.get('data'))
Decode ==
    /\ pc = "process_message"
    /\ IsMessage(message) /\ ~IsPing(message)
    /\ LET r == json_loads(message.data) IN
         IF r.ok
         THEN /\ command_data' = r.value
              /\ pc' = "get_processor"
              /\ UNCHANGED <<running, errlog>>
         ELSE /\ Raised(Exc("JSONDecodeError"), "parse")
              /\ command_data' = command_data
    /\ UNCHANGED <<nmsgs, received, message, worker, processor, published>>
    /\ UNCHANGED <<session, trace, response, script, locals, exc>>
    /\ UNCHANGED <<readVars, envVars>>

NoProcessor == [exists |-> FALSE]

AlwaysNone(p) == TRUE

\* if self.processor is None:
is_None(p) == ~p.exists

\* _get_processor: the processor is created on first use; AtolDriver() may raise.
\* Then process_command is entered: its first statements read the dict
\* (command_data.get on a value that is no dict raises AttributeError).
GetProcessor ==
    /\ pc = "get_processor"
    /\ \E built \in BOOLEAN :
         IF is_None(processor[worker]) /\ ~built
         THEN /\ Raised(Exc("AtolDriverError"), "unexpected")
              /\ UNCHANGED <<processor, session, response, script, trace>>
         ELSE /\ processor' = IF ~is_None(processor[worker]) THEN processor
                              ELSE [processor EXCEPT ![worker] = [exists |-> TRUE, by |-> nmsgs]]
              /\ session' = IF ~is_None(processor[worker]) THEN session
                            ELSE [session EXCEPT ![worker] = NewSession]
              /\ trace' = IF command_data.type = "object"
                          THEN Append(trace, Event("enter", "process_command"))
                          ELSE trace \o <<Event("enter", "process_command"),
                                          Event("raise", "process_command")>>
              /\ IF command_data.type = "object"
                 THEN /\ response' = ResponseInit(command_data.obj)
                      /\ script' = Handler(dict_get(command_data.obj, "command", None),
                                           dict_get(command_data.obj, "kwargs", EmptyDict))
                      /\ pc' = After(script')
                      /\ UNCHANGED <<running, errlog>>
                 ELSE /\ Raised(Exc("AttributeError"), "unexpected")
                      /\ UNCHANGED <<response, script>>
    /\ UNCHANGED <<nmsgs, received, message, worker, published>>
    /\ UNCHANGED <<command_data, locals, exc>>
    /\ UNCHANGED <<readVars, envVars>>

PublishFirst(seq, payload) == <<payload>> \o seq

\* r.publish(self.response_channel, json.dumps(response)): the channel's
\* subscribers see the payloads in the order they were published.
PublishOn(seq, payload) == Append(seq, payload)

\* return response; then r.publish(self.response_channel, json.dumps(response)),
\* which raises when the bus connection fails.
Publish ==
    /\ pc = "return"
    /\ \E sent \in BOOLEAN :
         IF sent
         THEN /\ published' = [published EXCEPT ![response_channel(worker)] =
                                 PublishOn(@, [msg |-> nmsgs, text |-> json_dumps(response)])]
              /\ trace' = trace \o <<Event("return", "process_command"),
                                      Event("publish", response_channel(worker))>>
              /\ pc' = "listen"
              /\ UNCHANGED <<running, errlog>>
         ELSE /\ Raised(Exc("ConnectionError"), "unexpected")
              /\ trace' = Append(trace, Event("return", "process_command"))
              /\ published' = published
    /\ UNCHANGED <<nmsgs, received, message, worker, processor>>
    /\ UNCHANGED <<session, command_data, response, script, locals, exc>>
    /\ UNCHANGED <<readVars, envVars>>

Channels == {response_channel(d) : d \in Devices}

\* The store with no cashier in it, and the states the store can be in: not
\* reachable, or holding for each key no hash, a cashier, or a hash whose
\* cashier_name is empty.
StoreKeys == {cashier_key("default"), cashier_key("d1")}
EmptyStore == [up |-> TRUE, hashes |-> [k \in StoreKeys |-> NoHash]]
StoreStates ==
    { [up |-> FALSE, hashes |-> [k \in StoreKeys |-> NoHash]] }
    \cup { [up |-> TRUE, hashes |-> h] :
               h \in [StoreKeys -> {NoHash, CashierHash("B", "innB"),
                                    CashierHash("", "innB")}] }

Init ==
    /\ pc = "listen"
    /\ running = TRUE
    /\ nmsgs = 0
    /\ received = <<>>
    /\ message = NoMessage
    /\ worker = None
    /\ processor = [d \in Devices |-> NoProcessor]
    /\ session = [d \in Devices |-> NewSession]
    /\ published = [c \in Channels |-> <<>>]
    /\ errlog = <<>>
    /\ trace = <<>>
    /\ command_data = JsonArray
    /\ response = NoResponse
    /\ script = <<>>
    /\ locals = NoLocals
    /\ exc = NoExc
    /\ delivered = <<>>
    /\ records = <<>>
    /\ rstate = NoIterator
    /\ store = EmptyStore
    /\ returned = <<>>

Next ==
    \/ Listen
    \/ Ignore
    \/ Decode
    \/ GetProcessor
    \/ StepRequire
    \/ StepSet
    \/ StepCheck
    \/ StepGet
    \/ StepAssign
    \/ Except
    \/ Publish

Spec == Init /\ [][Next]_vars

\* Commands that resolve the cashier, with any device_id in the payload (none,
\* the device of the channel, another device), on the channel of either device.
RoutedCommands ==
    { [command_id |-> "c1", command |-> "shift_print_x_report", kwargs |-> k] :
          k \in {EmptyDict, [cashier_name |-> "A"]} }
    \cup { [command_id |-> "c1", command |-> "shift_print_x_report", kwargs |-> EmptyDict,
             device_id |-> d] : d \in Devices }

RoutedMessages ==
    { [type |-> "message", channel |-> command_channel(d), data |-> JsonText(JsonObject(o))] :
          d \in Devices, o \in RoutedCommands }

ListenRouted == ListenFrom(RoutedMessages)

\* The router at pubsub.listen(), no processor built, the store holding a
\* cashier under every key.
InitRouting ==
    /\ pc = "listen"
    /\ running = TRUE
    /\ nmsgs = 0
    /\ received = <<>>
    /\ message = NoMessage
    /\ worker = None
    /\ processor = [d \in Devices |-> NoProcessor]
    /\ session = [d \in Devices |-> NewSession]
    /\ published = [c \in Channels |-> <<>>]
    /\ errlog = <<>>
    /\ trace = <<>>
    /\ command_data = JsonArray
    /\ response = NoResponse
    /\ script = <<>>
    /\ locals = NoLocals
    /\ exc = NoExc
    /\ delivered = <<>>
    /\ records = <<>>
    /\ rstate = NoIterator
    /\ store = [up |-> TRUE, hashes |-> [k \in StoreKeys |-> CashierHash("B", "innB")]]
    /\ returned = <<>>

NextRouting ==
    \/ ListenRouted
    \/ Decode
    \/ GetProcessor
    \/ StepCashier
    \/ StepSet
    \/ StepCheck
    \/ StepAssign
    \/ Except
    \/ Publish

\* The router loop with Commands that carry a device_id of their own.
SpecRouting == InitRouting /\ [][NextRouting]_vars

\* process_command entered by device d1's worker with a record-read Command.
ReadKwargs(command) ==
    CASE command = "read_fn_document" -> [document_number |-> 1]
      [] command = "read_registration_document" -> [registration_number |-> 1]
      [] command = "parse_complex_attribute" -> [tag_value |-> 1]
      [] OTHER -> EmptyDict

InitRead ==
    \E command \in ReadCommands : \E kwargs \in {EmptyDict, ReadKwargs(command)} :
        LET obj == [command_id |-> "c1", command |-> command, kwargs |-> kwargs]
            m == [type |-> "message", channel |-> command_channel("d1"),
                  data |-> JsonText(JsonObject(obj))]
        IN  /\ pc = "read_begin"
            /\ running = TRUE
            /\ nmsgs = 1
            /\ received = <<m>>
            /\ message = m
            /\ worker = "d1"
            /\ processor = [d \in Devices |->
                              IF d = "d1" THEN [exists |-> TRUE, by |-> 1] ELSE NoProcessor]
            /\ session = [d \in Devices |-> [NewSession EXCEPT !.opened = TRUE]]
            /\ published = [c \in Channels |-> <<>>]
            /\ errlog = <<>>
            /\ trace = <<[msg |-> 1, dev |-> "d1", ev |-> "enter", op |-> "process_command"]>>
            /\ command_data = JsonObject(obj)
            /\ response = ResponseInit(obj)
            /\ script = <<>>
            /\ locals = NoLocals
            /\ exc = NoExc
            /\ delivered = <<>>
            /\ records = <<>>
            /\ rstate = NoIterator
            /\ store = EmptyStore
            /\ returned = <<>>

NextRead ==
    \/ ReadBegin
    \/ ReadInfo
    \/ ReadNext
    \/ ReadHeader
    \/ ReadValue
    \/ ReadFallback
    \/ ReadEnd
    \/ Except

SpecRead == InitRead /\ [][NextRead]_vars

(***************************************************************************)
(* process_command called directly, Command after Command, by the worker   *)
(* of device d1 whose processor exists                                     *)
(***************************************************************************)
MaxCommands == 3

CommandMessage(obj) ==
    [type |-> "message", channel |-> command_channel("d1"),
     data |-> JsonText(JsonObject(obj))]

\* The worker of d1 between two messages, its processor built, the driver
\* session in state sess and the store in state st.
Idle(sess, st) ==
    /\ pc = "idle"
    /\ running = TRUE
    /\ nmsgs = 0
    /\ received = <<>>
    /\ message = NoMessage
    /\ worker = "d1"
    /\ processor = [d \in Devices |->
                      IF d = "d1" THEN [exists |-> TRUE, by |-> 0] ELSE NoProcessor]
    /\ session = [d \in Devices |-> sess]
    /\ published = [c \in Channels |-> <<>>]
    /\ errlog = <<>>
    /\ trace = <<>>
    /\ command_data = JsonArray
    /\ response = NoResponse
    /\ script = <<>>
    /\ locals = NoLocals
    /\ exc = NoExc
    /\ delivered = <<>>
    /\ records = <<>>
    /\ rstate = NoIterator
    /\ store = st
    /\ returned = <<>>

\* response = processor.process_command(command_data): the statements before
\* the try, up to the branch of the if/elif chain.
Enter(Commands) ==
    /\ pc = "idle" /\ nmsgs < MaxCommands
    /\ \E obj \in Commands :
         /\ message' = CommandMessage(obj)
         /\ command_data' = JsonObject(obj)
         /\ response' = ResponseInit(obj)
         /\ script' = Handler(dict_get(obj, "command", None),
                              dict_get(obj, "kwargs", EmptyDict))
    /\ pc' = After(script')
    /\ nmsgs' = nmsgs + 1
    /\ received' = Append(received, message')
    /\ trace' = Append(trace, [msg |-> nmsgs', dev |-> worker, ev |-> "enter",
                               op |-> "process_command"])
    /\ locals' = NoLocals
    /\ UNCHANGED <<running, worker, processor, published, errlog>>
    /\ UNCHANGED <<session, exc>>
    /\ UNCHANGED <<readVars, envVars>>

\* The worker of d1 at the first statement of the handler of the Command obj,
\* the first it was handed.
Entered(obj, sess, st) ==
    /\ pc = After(Handler(dict_get(obj, "command", None), dict_get(obj, "kwargs", EmptyDict)))
    /\ running = TRUE
    /\ nmsgs = 1
    /\ received = <<CommandMessage(obj)>>
    /\ message = CommandMessage(obj)
    /\ worker = "d1"
    /\ processor = [d \in Devices |->
                      IF d = "d1" THEN [exists |-> TRUE, by |-> 0] ELSE NoProcessor]
    /\ session = [d \in Devices |-> sess]
    /\ published = [c \in Channels |-> <<>>]
    /\ errlog = <<>>
    /\ trace = <<[msg |-> 1, dev |-> "d1", ev |-> "enter", op |-> "process_command"]>>
    /\ command_data = JsonObject(obj)
    /\ response = ResponseInit(obj)
    /\ script = Handler(dict_get(obj, "command", None), dict_get(obj, "kwargs", EmptyDict))
    /\ locals = NoLocals
    /\ exc = NoExc
    /\ delivered = <<>>
    /\ records = <<>>
    /\ rstate = NoIterator
    /\ store = st
    /\ returned = <<>>

\* return response
Return ==
    /\ pc = "return"
    /\ returned' = Append(returned, [msg |-> nmsgs, response |-> response,
                                     session |-> session[worker]])
    /\ trace' = Append(trace, Event("return", "process_command"))
    /\ pc' = "idle"
    /\ UNCHANGED <<running, nmsgs, received, message, worker, processor, published, errlog>>
    /\ UNCHANGED <<session, command_data, response, script, locals, exc>>
    /\ UNCHANGED <<readVars, store>>

\* The shift Commands: with and without a cashier in kwargs, with and without
\* device_id in the payload.
CashierKwargs ==
    { EmptyDict, [cashier_name |-> ""], [cashier_name |-> "A"],
      [cashier_name |-> "A", cashier_inn |-> "innA"], [cashier_inn |-> "innA"] }

ShiftCommands ==
    { [command_id |-> "c1", command |-> c, kwargs |-> k] :
          c \in {"shift_open", "shift_close"}, k \in CashierKwargs }
    \cup { [command_id |-> "c1", command |-> c, kwargs |-> k, device_id |-> "d1"] :
          c \in {"shift_open", "shift_close"}, k \in CashierKwargs }

InitShift ==
    \E st \in StoreStates : \E obj \in ShiftCommands :
        Entered(obj, [NewSession EXCEPT !.opened = TRUE], st)

NextShift ==
    \/ StepCashier
    \/ StepSet
    \/ StepCheck
    \/ StepGet
    \/ StepAssign
    \/ Except
    \/ Return

SpecShift == InitShift /\ [][NextShift]_vars

\* The receipt Commands, each with the kwargs its handler reads.
ReceiptCommands ==
    { [command_id |-> "c1", command |-> "receipt_open", kwargs |-> [receipt_type |-> 1]],
      [command_id |-> "c1", command |-> "registration",
       kwargs |-> [name |-> "Bread", price |-> 50, quantity |-> 2]],
      [command_id |-> "c1", command |-> "payment", kwargs |-> PaymentKwargs],
      [command_id |-> "c1", command |-> "receipt_close", kwargs |-> EmptyDict],
      [command_id |-> "c1", command |-> "receipt_cancel", kwargs |-> EmptyDict] }

EnterReceipt == Enter(ReceiptCommands)

InitReceipt == Idle([NewSession EXCEPT !.opened = TRUE], EmptyStore)

NextReceipt ==
    \/ EnterReceipt
    \/ StepCashier
    \/ StepRequire
    \/ StepSet
    \/ StepCheck
    \/ StepAssign
    \/ Except
    \/ Return

SpecReceipt == InitReceipt /\ [][NextReceipt]_vars

\* Commands that meet every kind of failure: a checked call that fails, a
\* missing kwarg before and after the checked call, an amount given as text,
\* an unknown command.
ErrorCommands ==
    { [command_id |-> "c1", command |-> "payment", kwargs |-> PaymentKwargs],
      [command_id |-> "c1", command |-> "payment", kwargs |-> EmptyDict],
      [command_id |-> "c1", command |-> "payment",
       kwargs |-> [payment_type |-> 0, sum |-> Str("100.00")]],
      [command_id |-> "c1", command |-> "cash_income", kwargs |-> [amount |-> Number(500)]],
      [command_id |-> "c1", command |-> "cash_income", kwargs |-> [amount |-> Str("500")]],
      [command_id |-> "c1", command |-> "cash_outcome", kwargs |-> [amount |-> Str("500")]],
      [command_id |-> "c1", command |-> "registration", kwargs |-> [price |-> 50]],
      [command_id |-> "c1", command |-> "receipt_open", kwargs |-> [receipt_type |-> 1]],
      [command_id |-> "c1", command |-> "receipt_open", kwargs |-> EmptyDict],
      [command_id |-> "c1", command |-> "receipt_close", kwargs |-> EmptyDict],
      [command_id |-> "c1", command |-> "bogus", kwargs |-> EmptyDict] }

InitErrors ==
    \E obj \in ErrorCommands : Entered(obj, [NewSession EXCEPT !.opened = TRUE], EmptyStore)

NextErrors ==
    \/ StepCashier
    \/ StepRequire
    \/ StepSet
    \/ StepCheckAny
    \/ StepAssign
    \/ Except
    \/ Return

\* One Command, executed by a device that returns any result code.
SpecErrors == InitErrors /\ [][NextErrors]_vars

\* The print commands.
PrintNames == {"print_text", "print_barcode", "print_picture", "print_picture_by_number"}

\* The kwargs every print Command of the model carries.
PrintRequired(command) ==
    CASE command = "print_text" -> [text |-> "hello"]
      [] command = "print_barcode" -> [barcode |-> "4601234567890"]
      [] command = "print_picture" -> [filename |-> "logo.png"]
      [] command = "print_picture_by_number" -> [picture_number |-> 1]

PrintKeys(command) ==
    { PrintOptional(command)[i][1] : i \in 1..Len(PrintOptional(command)) }

\* The optional kwargs: any subset of them, each with the value 1, defer with
\* 0 or 1.
PrintKwargs(command) ==
    { f \in UNION { [S -> {0, 1}] : S \in SUBSET PrintKeys(command) } :
          \A k \in DOMAIN f : f[k] = 0 => k = "defer" }

PrintCommands ==
    { [command_id |-> "c1", command |-> c, kwargs |-> PrintRequired(c) @@ f] :
          c \in PrintNames, f \in UNION { PrintKwargs(n) : n \in PrintNames } }

InitPrint ==
    \E obj \in PrintCommands :
        /\ DOMAIN obj.kwargs \subseteq DOMAIN PrintRequired(obj.command) \cup PrintKeys(obj.command)
        /\ Entered(obj, [NewSession EXCEPT !.opened = TRUE], EmptyStore)

NextPrint ==
    \/ StepRequire
    \/ StepSet
    \/ StepCheck
    \/ StepAssign
    \/ Except
    \/ Return

\* One print Command.
SpecPrint == InitPrint /\ [][NextPrint]_vars

\* The FN queries.
FnQueries == {"query_registration_info", "query_fn_info"}

FnCommands == { [command_id |-> "c1", command |-> c, kwargs |-> EmptyDict] : c \in FnQueries }

InitFn ==
    \E obj \in FnCommands : Entered(obj, [NewSession EXCEPT !.opened = TRUE], EmptyStore)

NextFn ==
    \/ StepSet
    \/ StepCheck
    \/ StepField
    \/ StepAssign
    \/ Except
    \/ Return

\* One FN query.
SpecFn == InitFn /\ [][NextFn]_vars

\* The queries: generic ones, one with parameters of its selector, FN queries.
QueryNames == {"get_status", "get_cash_sum", "query_last_receipt"} \cup FnQueries

QueryCommands ==
    { [command_id |-> "c1", command |-> c, kwargs |-> EmptyDict] : c \in QueryNames }
    \cup { [command_id |-> "c1", command |-> "get_payment_sum", kwargs |-> k] :
               k \in {EmptyDict, [payment_type |-> 0, receipt_type |-> 1]} }

InitQuery ==
    \E obj \in QueryCommands : Entered(obj, [NewSession EXCEPT !.opened = TRUE], EmptyStore)

NextQuery ==
    \/ StepRequire
    \/ StepSet
    \/ StepCheckAny
    \/ StepField
    \/ StepAssign
    \/ Except
    \/ Return

\* One query, answered by a device that returns any result code.
SpecQuery == InitQuery /\ [][NextQuery]_vars

\* Commands that resolve the cashier, with and without a cashier in kwargs.
MaxCashierCommands == 2
CashierCommands ==
    { [command_id |-> "c1", command |-> "shift_print_x_report", kwargs |-> EmptyDict,
       device_id |-> "d1"],
      [command_id |-> "c1", command |-> "shift_print_x_report",
       kwargs |-> [cashier_name |-> "A"], device_id |-> "d1"],
      [command_id |-> "c1", command |-> "receipt_open", kwargs |-> [receipt_type |-> 1],
       device_id |-> "d1"] }

EnterCashier == nmsgs < MaxCashierCommands /\ Enter(CashierCommands)

\* The stores in which d1 has a cashier.
CashierStores ==
    { [up |-> TRUE, hashes |-> [k \in StoreKeys |-> CashierHash(c[1], c[2])]] :
          c \in {<<"B", "innB">>, <<"C", "innC">>} }

\* Somebody else writes another cashier into the store while the worker waits
\* for its next Command (at most once between two Commands).
StoreChange ==
    /\ pc = "idle" /\ nmsgs < MaxCashierCommands
    /\ \A k \in 1..Len(trace) : ~(trace[k].msg = nmsgs /\ trace[k].ev = "hset")
    /\ \E st \in CashierStores : st # store /\ store' = st
    /\ trace' = Append(trace, [msg |-> nmsgs, dev |-> "store", ev |-> "hset",
                               op |-> cashier_key("d1")])
    /\ UNCHANGED <<routerVars, readVars, returned>>
    /\ UNCHANGED <<session, command_data, response, script, locals, exc>>

InitCashier == \E st \in CashierStores : Idle([NewSession EXCEPT !.opened = TRUE], st)

NextCashier ==
    \/ EnterCashier
    \/ StoreChange
    \/ StepCashier
    \/ StepRequire
    \/ StepSet
    \/ StepCheck
    \/ StepAssign
    \/ Except
    \/ Return

\* Commands that resolve the cashier, and a store that changes between them.
SpecCashier == InitCashier /\ [][NextCashier]_vars

\* Commands whose handlers make several checked calls: the shift and receipt
\* openings and print_feed with no, zero or several lines.
MaxFeedLines == 3
MaxStepCommands == 2
FeedKwargs == {EmptyDict} \cup { [lines |-> n] : n \in 0..MaxFeedLines }
StepCommands ==
    { [command_id |-> "c1", command |-> c, kwargs |-> [receipt_type |-> 1]] :
          c \in {"shift_open", "shift_close", "receipt_open"} }
    \cup { [command_id |-> "c1", command |-> "print_feed", kwargs |-> k] : k \in FeedKwargs }

EnterSteps == nmsgs < MaxStepCommands /\ Enter(StepCommands)

InitSteps == Idle([NewSession EXCEPT !.opened = TRUE], EmptyStore)

NextSteps ==
    \/ EnterSteps
    \/ StepCashier
    \/ StepRequire
    \/ StepSet
    \/ StepCheck
    \/ StepGet
    \/ StepAssign
    \/ Except
    \/ Return

\* Sequences of Commands with several checked calls each.
SpecSteps == InitSteps /\ [][NextSteps]_vars

\* The connection Commands.
ConnectionCommands ==
    { [command_id |-> "c1", command |-> c, kwargs |-> EmptyDict] :
          c \in {"connection_open", "connection_close", "connection_is_opened"} }

EnterConnection == Enter(ConnectionCommands)

InitConnection == Idle(NewSession, EmptyStore)

NextConnection ==
    \/ EnterConnection
    \/ StepCheck
    \/ StepGet
    \/ StepAssign
    \/ Except
    \/ Return

SpecConnection == InitConnection /\ [][NextConnection]_vars

\* read_last_document_journal.
JournalCommands ==
    { [command_id |-> "c1", command |-> "read_last_document_journal",
       kwargs |-> EmptyDict] }

\* The documents a device can hold: (tag, value) pairs whose tag is a 16-bit
\* number and whose value is a short byte string.
MaxTail == 5
TlvPairs ==
    { [tag |-> le16(lo, hi), value |-> v] :
          lo \in ByteValues, hi \in ByteValues, v \in ByteArrays(MaxTail - 4) }
TlvLists == SeqsUpTo(TlvPairs, MaxBytes \div 4)

\* The bytes that can follow a document of n bytes.
Tails(n) == ByteArrays(IF MaxBytes - n < MaxTail THEN MaxBytes - n ELSE MaxTail)

\* The device holds a document and hands out its encoding followed by any
\* further bytes (none, a partial record, or one more record).
InitJournal ==
    \E obj \in JournalCommands : \E document \in TlvLists :
        \E more \in Tails(Len(tlv_encode(document))) :
            Entered(obj, [NewSession EXCEPT !.opened = TRUE, !.document = document,
                                            !.journal = tlv_encode(document) \o more],
                    EmptyStore)

NextJournal ==
    \/ StepCheck
    \/ StepGet
    \/ StepScan
    \/ StepAssign
    \/ Except
    \/ Return

SpecJournal == InitJournal /\ [][NextJournal]_vars

\* The same, with the one thread of the worker always taking its next step.
SpecJournalFair == SpecJournal /\ WF_vars(NextJournal)

(***************************************************************************)
(* Properties of the router loop and of process_command (Spec)             *)
(***************************************************************************)
\* A bus message whose payload decodes as a Command (a JSON object).
IsCommand(m) ==
    m.type = "message" /\ m.data.kind = "json" /\ m.data.value.type = "object"

\* A message whose payload is neither a ping nor decodable as a Command.
Undecodable(m) == m.type = "message" /\ m.data # PingText /\ ~IsCommand(m)

\* process_message has returned for message number i.
Handled(i) == i < nmsgs \/ pc \in {"listen", "crashed"}

CommandIdOf(m) == dict_get(m.data.value.obj, "command_id", None)
CommandNameOf(m) == dict_get(m.data.value.obj, "command", None)

\* The responses published for message number i, on any channel.
PublishedFor(i) ==
    { <<c, k>> \in Channels \X (1..MaxMessages + 1) :
          k <= Len(published[c]) /\ published[c][k].msg = i }

EventsOf(i, kinds) ==
    { k \in 1..Len(trace) : trace[k].msg = i /\ trace[k].ev \in kinds }

\* C1: the Response process_command builds and returns carries the command_id of
\* the Command it was called with, on every path, and so does every published
\* payload: the key is present and holds the id of the message it answers.
C1_CommandIdEchoed ==
    /\ pc \in {"exec", "except", "return"} =>
          response.command_id = CommandIdOf(message)
    /\ \A c \in Channels : \A k \in 1..Len(published[c]) :
          LET p == published[c][k]
              r == json_loads(p.text).value.obj
          IN  /\ "command_id" \in DOMAIN r
              /\ r.command_id = CommandIdOf(received[p.msg])

\* C1 witness: a failed Command with id c2 is returned after a Response with id
\* c1 was published on the same channel.
C1_Witness ==
    /\ pc = "return" /\ response.command_id = "c2" /\ response.message = "error"
    /\ Len(published[response_channel(worker)]) = 1
    /\ json_loads(published[response_channel(worker)][1].text).value.obj.command_id = "c1"

\* C2: once a message whose payload decodes as a Command has been handled,
\* exactly one Response has been published for it.
C2_ExactlyOneResponse ==
    \A i \in 1..nmsgs :
        (IsCommand(received[i]) /\ Handled(i)) => Cardinality(PublishedFor(i)) = 1

C4_Serialized ==
    /\ \A i, j \in 1..Len(trace) :
          (i < j /\ trace[i].dev = trace[j].dev) =>
              /\ trace[i].msg <= trace[j].msg
              /\ (trace[i].ev = "publish") => trace[i].msg < trace[j].msg
              /\ (trace[i].ev = "enter" /\ trace[i].msg < trace[j].msg) =>
                     \E k \in (i + 1)..(j - 1) :
                         /\ trace[k].msg = trace[i].msg
                         /\ trace[k].ev \in {"return", "raise"}
    /\ pc \in {"listen", "process_message", "get_processor"} =>
          (script = <<>> /\ exc = NoExc)

\* C4 witness: device d1 ran a device call of one Command, published its
\* Response, and then ran a device call of the next Command.
C4_Witness ==
    \E i, j, k \in 1..Len(trace) :
        /\ i < j /\ j < k
        /\ trace[i].dev = "d1" /\ trace[j].dev = "d1" /\ trace[k].dev = "d1"
        /\ trace[i].ev = "call" /\ trace[j].ev = "publish" /\ trace[k].ev = "call"
        /\ trace[i].msg = trace[j].msg /\ trace[j].msg < trace[k].msg

\* C5: for a payload that cannot be decoded as a Command nothing is published,
\* no device call is made, the error is logged, the loop keeps running and is
\* back at pubsub.listen() for the next message.
C5_MalformedDropped ==
    \A i \in 1..nmsgs :
        Undecodable(received[i]) =>
            /\ PublishedFor(i) = {}
            /\ EventsOf(i, {"call", "publish"}) = {}
            /\ running
            /\ Handled(i) => \E n \in 1..Len(errlog) : errlog[n][1] = i
            /\ (Handled(i) /\ i = nmsgs) => pc = "listen"

\* C5 witness: device d1 got a payload that is not JSON, then a Command, and
\* the Command was executed on the device and answered.
C5_Witness ==
    /\ nmsgs = 2
    /\ received[1].channel = command_channel("d1") /\ received[1].data = GarbageText
    /\ received[2].channel = command_channel("d1")
    /\ EventsOf(2, {"call"}) # {}
    /\ PublishedFor(2) # {}

\* C6: whatever failed while a message was handled, the router loop is still
\* running, the failure was logged and the loop went back to pubsub.listen(),
\* where it can take the next message.
C6_LoopSurvives ==
    /\ running /\ pc # "crashed"
    /\ \A n \in 1..Len(errlog) : Handled(errlog[n][1])
    /\ (pc = "listen" /\ nmsgs < MaxMessages) => ENABLED Listen

\* C6 witness: the first message failed outside process_command (processor
\* construction or publish failure), and the second message was answered.
C6_Witness ==
    /\ Len(errlog) = 1 /\ errlog[1] = <<1, "unexpected">>
    /\ IsCommand(received[1])
    /\ PublishedFor(2) # {}

\* C7: process_command, entered with a payload that decoded as a Command,
\* returns a Response and never raises: once the message has been handled there
\* is a return for it and no exception left process_command.
C7_AlwaysReturns ==
    \A i \in 1..nmsgs :
        (IsCommand(received[i]) /\ EventsOf(i, {"enter"}) # {}) =>
            /\ EventsOf(i, {"raise"}) = {}
            /\ Handled(i) => Cardinality(EventsOf(i, {"return"})) = 1

\* C7 witness: a payment Command without kwargs (KeyError in the handler) has
\* returned its Response.
C7_Witness ==
    /\ pc = "return" /\ CommandNameOf(message) = "payment"
    /\ response.message = "error" /\ response.data = NoData
    /\ EventsOf(nmsgs, {"call"}) = {}

\* C8: a Command whose name is not in the dispatch table returns success=false,
\* the unknown-command message and the request's command_id, and makes no
\* device call.
C8_UnknownCommand ==
    (pc = "return" /\ CommandNameOf(message) \notin DispatchTable) =>
        /\ response.success = FALSE
        /\ response.message = "unknown_command"
        /\ response.data = NoData
        /\ response.command_id = CommandIdOf(message)
        /\ EventsOf(nmsgs, {"call"}) = {}

\* C8 witness: the unknown Command "bogus" with id c1 has returned.
C8_Witness ==
    /\ pc = "return" /\ CommandNameOf(message) = "bogus"
    /\ response.command_id = "c1"

(***************************************************************************)
(* Properties of the record-read commands (SpecRead)                       *)
(***************************************************************************)
\* C9: when a record-read Command returns after beginReadRecords succeeded,
\* endReadRecords has been invoked exactly once, whatever happened in between.
C9_EndReadExactlyOnce ==
    (pc = "return" /\ rstate.begun = 1) => rstate.ended = 1

\* C10 as claimed: in a TLV read, once the accessor of the declared type has
\* failed for a record, the Command is not aborted: after the fallback the record
\* is in the list with a raw-byte value.
C10_FallbackNeverAborts ==
    ReadCommand \in TlvCommands =>
        \A n \in rstate.typed_failed :
            \/ pc = "read_fallback" /\ n = Current
            \/ /\ n <= Len(records)
               /\ records[n] = Entry(n, "getParamByteArray")

\* C10 as amended: in a TLV read, when the accessor of the declared type fails
\* the raw-byte accessor is invoked for the same record; if it succeeds the
\* record is listed with a raw-byte value and the stream continues, so a
\* successful Command returns every delivered record, each with the value of its
\* typed accessor or, where that failed, raw bytes; if the raw-byte accessor
\* fails too, the Command is aborted with success=false.
C10_FallbackToRawBytes ==
    ReadCommand \in TlvCommands =>
        /\ \A n \in rstate.typed_failed :
              \/ pc = "read_fallback" /\ n = Current
              \/ /\ n \notin rstate.raw_failed
                 /\ n <= Len(records)
                 /\ records[n] = Entry(n, "getParamByteArray")
              \/ /\ n \in rstate.raw_failed
                 /\ n = Current /\ Len(records) = n - 1
                 /\ pc \in {"except", "return"}
                 /\ response.success = FALSE
        /\ (pc = "return" /\ response.success) =>
              /\ Len(response.data.records) = Len(delivered)
              /\ \A n \in 1..Len(delivered) :
                    response.data.records[n] =
                        Entry(n, IF n \in rstate.typed_failed THEN "getParamByteArray"
                                 ELSE TypedAccessor(delivered[n].type))

\* C10 witness: read_fn_document returned successfully two records; the first is
\* declared a string (type 8), its string accessor failed and it is listed as
\* raw bytes; the second was read as an integer.
C10_Witness ==
    /\ pc = "return" /\ response.success /\ ReadCommand = "read_fn_document"
    /\ Len(records) = 2
    /\ delivered[1].type = 8 /\ rstate.typed_failed = {1}
    /\ records[1].tag_value.kind = "bytes"
    /\ records[2].tag_value.kind = "int"

(***************************************************************************)
(* Properties of read_last_document_journal (SpecJournal)                  *)
(***************************************************************************)
\* The handler of the current Command has fetched the TLV byte array.
JournalRead == \E k \in EventsOf(nmsgs, {"call"}) : trace[k].op = "TLV_LIST"

PairsOf(structures) ==
    [i \in 1..Len(structures) |-> [tag |-> structures[i].tag, value |-> structures[i].value]]

IsPrefix(a, b) == Len(a) <= Len(b) /\ SubSeq(b, 1, Len(a)) = a

\* The bytes of b after its first n.
Beyond(b, n) == SubSeq(b, n + 1, Len(b))

\* A record cut short: fewer bytes than a header, or a header followed by fewer
\* bytes than the length it declares.
Partial(b) == Len(b) < 4 \/ b[3] + 256 * b[4] > Len(b) - 4

\* C11: for every byte array the scan of read_last_document_journal raises
\* nothing; the structures it has collected are the complete records at the
\* front of the array, each with the value its length declares; when the Command
\* returns, what follows them is cut short (or nothing), they are all in the
\* Response and the Response reports success.
C11_TruncatedTailStopsScan ==
    /\ exc.type # "IndexError"
    /\ JournalRead =>
          LET L == locals.tlv_list
              S == locals.tlv_structures
          IN  /\ IsPrefix(tlv_encode(PairsOf(S)), L)
              /\ \A i \in 1..Len(S) : S[i].length = Len(S[i].value)
              /\ pc = "return" =>
                    /\ response.success
                    /\ response.data = [kind |-> "dict", tlv_structures |-> S, raw_bytes |-> L]
                    /\ Partial(Beyond(L, Len(tlv_encode(PairsOf(S)))))

\* C11 witness: the Command returns one complete record; after it the array holds
\* a whole header that declares more value bytes than are left.
C11_Witness ==
    /\ pc = "return" /\ JournalRead /\ response.success
    /\ Len(response.data.tlv_structures) = 1
    /\ Len(response.data.tlv_structures[1].value) = 1
    /\ Len(locals.tlv_list) = 9

\* C12: when the device hands out the encoding of a list of (tag, value) pairs
\* (tag in 2 bytes little-endian, length in 2 bytes little-endian, value),
\* alone or followed by a record cut short, the structures in the Response are
\* exactly those pairs, in order.
C12_TlvRoundTrip ==
    LET s == session[worker]
        more == Beyond(s.journal, Len(tlv_encode(s.document)))
    IN  (pc = "return" /\ JournalRead /\ Partial(more)) =>
            /\ response.success
            /\ PairsOf(response.data.tlv_structures) = s.document

\* C12 witness: two pairs with different tags, the first with a one-byte value
\* and a tag above 255, followed by one stray byte, have been returned.
C12_Witness ==
    LET s == session[worker] IN
    /\ pc = "return" /\ JournalRead
    /\ Len(s.document) = 2
    /\ s.document[1] = [tag |-> 65281, value |-> <<255>>]
    /\ s.document[2] = [tag |-> 1, value |-> <<>>]
    /\ Len(s.journal) = Len(tlv_encode(s.document)) + 1
    /\ PairsOf(response.data.tlv_structures) = s.document

(***************************************************************************)
(* Properties of the cashier resolution and the shift commands (SpecShift) *)
(***************************************************************************)
\* The handler of the current Command has resolved its cashier.
CashierResolved == locals.cashier_name # None

CurrentKwargs == dict_get(command_data.obj, "kwargs", EmptyDict)
CurrentDeviceId == dict_get(command_data.obj, "device_id", "default")

\* kwargs carries a non-empty cashier_name.
KwargsNamed == "cashier_name" \in DOMAIN CurrentKwargs /\ CurrentKwargs["cashier_name"] # ""

\* The hash the store keeps for the device of the current Command.
StoredHash == store.hashes[cashier_key(CurrentDeviceId)]

\* The store is reachable and holds a cashier with a non-empty name for the device.
StoreHolds ==
    /\ store.up
    /\ Bytes("cashier_name") \in DOMAIN StoredHash
    /\ StoredHash[Bytes("cashier_name")].s # ""

\* C13: the resolved cashier is the one of kwargs when kwargs names one, else
\* the one the store holds for the device when it holds one, else the
\* configured default.
C13_CashierPriority ==
    CashierResolved =>
        IF KwargsNamed
        THEN /\ locals.cashier_name = CurrentKwargs["cashier_name"]
             /\ locals.cashier_inn = dict_get(CurrentKwargs, "cashier_inn", "")
        ELSE IF StoreHolds
        THEN /\ locals.cashier_name = StoredHash[Bytes("cashier_name")].s
             /\ locals.cashier_inn = StoredHash[Bytes("cashier_inn")].s
        ELSE /\ locals.cashier_name = settings.cashier_name
             /\ locals.cashier_inn = settings.cashier_inn

\* C14: the store never makes the cashier resolution raise: no exception of the
\* store read leaves _get_cashier, and when the store cannot be reached or holds
\* nothing for the device, a Command without a cashier name in kwargs gets the
\* configured default cashier.
C14_StoreFailureFallsBack ==
    /\ exc.type \notin {"ConnectionError", "AttributeError"}
    /\ (script # <<>> /\ Head(script).i = "cashier") => ENABLED StepCashier
    /\ (CashierResolved /\ ~KwargsNamed /\ (~store.up \/ StoredHash = NoHash)) =>
          /\ locals.cashier_name = settings.cashier_name
          /\ locals.cashier_inn = settings.cashier_inn

\* C14 witness: with the store unreachable, a shift_open without kwargs was
\* carried out with the default cashier and returned success.
C14_Witness ==
    /\ pc = "return" /\ response.success
    /\ CommandNameOf(message) = "shift_open" /\ CurrentKwargs = EmptyDict
    /\ ~store.up
    /\ locals.cashier_name = settings.cashier_name

\* The device operations the handler of the current Command has invoked, in order.
CallsOf(i) ==
    LET calls == SelectSeq(trace, LAMBDA e : e.msg = i /\ e.ev = "call")
    IN  [k \in 1..Len(calls) |-> calls[k].op]

\* The operation that opens the shift (openShift) or closes it (report).
ShiftOperations == {"openShift", "report"}

\* C17: in shift_open and shift_close the cashier has been set on the session
\* before the shift operation is invoked; the device operation that follows the
\* shift operation is checkDocumentClosed, and none other; and success=true is
\* reported only after the shift operation and the check both succeeded.
C17_ShiftThenDocumentCheck ==
    LET calls == CallsOf(nmsgs) IN
    CommandNameOf(message) \in {"shift_open", "shift_close"} =>
        /\ \A k \in 1..Len(calls) :
              calls[k] \in ShiftOperations =>
                  /\ \E j \in 1..(k - 1) : calls[j] = "1021"
                  /\ CashierResolved
                  /\ IF k < Len(calls) THEN calls[k + 1] = "checkDocumentClosed"
                     ELSE /\ pc = "exec"
                          /\ Head(script) = Step("check", "checkDocumentClosed")
        /\ response.success =>
              /\ \E k \in 1..(Len(calls) - 1) :
                    calls[k] \in ShiftOperations /\ calls[k + 1] = "checkDocumentClosed"
              /\ \A k \in 1..Len(calls) : calls[k] # "errorDescription"

\* C18: a shift_open Command for which every device call succeeded returns
\* success=true and data that is exactly {shift_number: n}, n being the shift
\* number the device reported.
C18_ShiftOpenData ==
    (/\ pc = "return" /\ CommandNameOf(message) = "shift_open"
     /\ \A k \in 1..Len(CallsOf(nmsgs)) : CallsOf(nmsgs)[k] # "errorDescription") =>
        /\ response.success
        /\ response.data = [kind |-> "dict", shift_number |-> locals.shift_number]
        /\ locals.shift_number \in ShiftNumbers
        /\ response.command_id = CommandIdOf(message)

\* C18 witness: shift_open with kwargs {cashier_name: "A"} and device_id d1 has
\* returned success with shift number 7.
C18_Witness ==
    /\ pc = "return" /\ CommandNameOf(message) = "shift_open"
    /\ CurrentKwargs = [cashier_name |-> "A"] /\ CurrentDeviceId = "d1"
    /\ response.success
    /\ response.data = [kind |-> "dict", shift_number |-> 7]

(***************************************************************************)
(* Properties of the receipt commands (SpecReceipt)                        *)
(***************************************************************************)
\* The name of the Command the i-th returned Response answers.
ReturnedCommand(i) == CommandNameOf(received[returned[i].msg])

\* The device operation each receipt Command stands for.
ReceiptOperation(command) ==
    CASE command = "receipt_open" -> "openReceipt"
      [] command = "registration" -> "registration"
      [] command = "payment" -> "payment"
      [] command = "receipt_close" -> "closeReceipt"
      [] command = "receipt_cancel" -> "cancelReceipt"

Occurs(x, seq) == \E k \in 1..Len(seq) : seq[k] = x

\* C15: a receipt_close Command the device accepted returns success=true with
\* data that holds the fiscal identifiers of the closed receipt, among them a
\* fiscal_document_number.
C15_CloseReturnsFiscalIds ==
    \A i \in 1..Len(returned) :
        (ReturnedCommand(i) = "receipt_close" /\ Occurs("closeReceipt", CallsOf(returned[i].msg))
         /\ ~Occurs("errorDescription", CallsOf(returned[i].msg))) =>
            /\ returned[i].response.success
            /\ returned[i].response.data.kind = "dict"
            /\ "fiscal_document_number" \in DOMAIN returned[i].response.data

\* C16: whatever receipt Commands came before, the handler of a receipt Command
\* (with the kwargs it reads) invokes the device operation the Command stands
\* for, unless an earlier device call of the same handler failed; and a Command
\* that fails has failed with the error the device reported, never by a check
\* of the processor.
C16_NoLocalRejection ==
    \A i \in 1..Len(returned) :
        LET calls == CallsOf(returned[i].msg)
            r == returned[i].response
        IN  /\ Occurs(ReceiptOperation(ReturnedCommand(i)), calls)
               \/ Occurs("errorDescription", calls)
            /\ r.success <=> ~Occurs("errorDescription", calls)
            /\ ~r.success => r.data = to_dict(1)

\* C16 witness: with no receipt open, receipt_close was forwarded to the device
\* and failed with the device's error; the registration after it was forwarded
\* as well.
C16_Witness ==
    /\ Len(returned) = 2
    /\ ReturnedCommand(1) = "receipt_close"
    /\ Occurs("closeReceipt", CallsOf(1))
    /\ ~returned[1].response.success /\ returned[1].response.data = to_dict(1)
    /\ returned[1].session.receipt = "none"
    /\ ReturnedCommand(2) = "registration"
    /\ Occurs("registration", CallsOf(2))

(***************************************************************************)
(* Properties of the connection commands (SpecConnection)                  *)
(***************************************************************************)
\* The driver session before the Command of the i-th returned Response ran.
SessionBefore(i) == IF i = 1 THEN NewSession ELSE returned[i - 1].session

\* C19: connection_is_opened leaves the driver session as it found it and
\* returns success=true with the session's state; any run of
\* connection_is_opened Commands, with no connection_open or connection_close
\* among them, returns the same is_opened value.
C19_IsOpenedObserves ==
    /\ \A i \in 1..Len(returned) :
          ReturnedCommand(i) = "connection_is_opened" =>
              /\ returned[i].session = SessionBefore(i)
              /\ returned[i].response.success
              /\ returned[i].response.data =
                     [kind |-> "dict", is_opened |-> SessionBefore(i).opened]
    /\ \A i, j \in 1..Len(returned) :
          (i < j /\ \A k \in i..j : ReturnedCommand(k) = "connection_is_opened") =>
              returned[i].response.data = returned[j].response.data

\* C19 witness: after a successful connection_open two connection_is_opened
\* Commands in a row both returned is_opened = true.
C19_Witness ==
    /\ Len(returned) = 3
    /\ ReturnedCommand(1) = "connection_open" /\ returned[1].response.success
    /\ ReturnedCommand(2) = "connection_is_opened"
    /\ ReturnedCommand(3) = "connection_is_opened"
    /\ returned[2].response.data.is_opened /\ returned[3].response.data.is_opened

(***************************************************************************)
(* Routing (Spec)                                                          *)
(***************************************************************************)
\* The device on whose command channel message number i arrived.
DeviceOf(i) == CHOOSE d \in Devices : command_channel(d) = received[i].channel

\* C20: everything done for a message (process_command entered, device calls,
\* return, publication) is done by the worker of the device on whose command
\* channel it arrived, the Response is published on that device's response
\* channel and on no other, a processor exists only for a device that received
\* a Command, and a message is handed to at most one worker.
C20_RoutedToOwner ==
    /\ \A k \in 1..Len(trace) :
          /\ trace[k].dev = DeviceOf(trace[k].msg)
          /\ trace[k].ev = "publish" => trace[k].op = response_channel(DeviceOf(trace[k].msg))
    /\ \A c \in Channels : \A k \in 1..Len(published[c]) :
          c = response_channel(DeviceOf(published[c][k].msg))
    /\ \A d \in Devices :
          processor[d].exists =>
              /\ received[processor[d].by].channel = command_channel(d)
              /\ IsCommand(received[processor[d].by]) \/ received[processor[d].by].data.kind = "json"
    /\ \A i \in 1..nmsgs : Cardinality(EventsOf(i, {"enter"})) <= 1
    /\ pc \notin {"listen", "crashed"} => worker = DeviceOf(nmsgs)

\* C20 witness: a Command of d1 and then a Command of d2 were each executed on
\* their own device and answered on their own response channel.
C20_Witness ==
    /\ nmsgs = 2
    /\ received[1].channel = command_channel("d1")
    /\ received[2].channel = command_channel("d2")
    /\ \E k \in EventsOf(1, {"call"}) : trace[k].dev = "d1"
    /\ \E k \in EventsOf(2, {"call"}) : trace[k].dev = "d2"
    /\ Len(published[response_channel("d1")]) = 1
    /\ Len(published[response_channel("d2")]) = 1

\* The messages of device d, among the first n, that reached _get_processor:
\* messages whose payload is JSON.
Reached(d, n) ==
    { i \in 1..n : /\ received[i].type = "message"
                   /\ received[i].channel = command_channel(d)
                   /\ received[i].data.kind = "json" }

C22_PingIsNoOp ==
    /\ \A i \in 1..nmsgs :
          (received[i].type = "message" /\ received[i].data = PingText) =>
              /\ PublishedFor(i) = {}
              /\ EventsOf(i, {"enter", "call", "return", "raise", "publish"}) = {}
              /\ \A n \in 1..Len(errlog) : errlog[n][1] # i
              /\ \A d \in Devices : processor[d].exists => processor[d].by # i
              /\ i = nmsgs => pc \in {"process_message", "listen"}
    /\ running

\* C22 witness: d1 got a ping and then a Command, which was answered by a
\* processor created for the Command.
C22_Witness ==
    /\ nmsgs = 2 /\ pc = "listen"
    /\ received[1] = [type |-> "message", channel |-> command_channel("d1"), data |-> PingText]
    /\ processor["d1"] = [exists |-> TRUE, by |-> 2]
    /\ PublishedFor(2) # {}

\* The checked calls in the trace, and those of them that failed.
CheckedCalls == { k \in 1..Len(trace) : "result" \in DOMAIN trace[k] }
FailedChecks == { k \in CheckedCalls : trace[k].result < 0 }

\* The code the device reported for the failed call k.
ReportedCode(k) == trace[k + 2].code

Contains(part, text) ==
    \E i \in 0..(Len(text) - Len(part)) : SubSeq(text, i + 1, i + Len(part)) = part

StoppedAt(k) ==
    /\ Len(trace) >= k + 2
    /\ trace[k + 1].op = "errorDescription"
    /\ trace[k + 2].op = "errorCode"
    /\ \A j \in (k + 3)..Len(trace) : trace[j].ev = "return"
    /\ ~response.success
    /\ \A n \in 1..Len(returned) : ~returned[n].response.success

\* C24 as stated: every checked call that returned a nonzero code stopped the
\* handler with success = false.
C24_NonzeroIsDeviceError ==
    \A k \in CheckedCalls : trace[k].result # 0 => StoppedAt(k)

\* C24, amended: a checked call that returned a negative code stopped the
\* handler with success = false and an AtolDriverError; after a zero or a
\* positive code the handler went on, _check_result raising nothing.
C24_NegativeIsDeviceError ==
    \A k \in CheckedCalls :
        /\ trace[k].result < 0 =>
              /\ StoppedAt(k)
              /\ pc = "except" => exc = DriverExc(ReportedCode(k))
        /\ trace[k].result >= 0 =>
              /\ ~(Len(trace) > k /\ trace[k + 1].op = "errorDescription")
              /\ exc.type # "AtolDriverError" \/ k < Len(trace)

\* C24 witness: closeReceipt returned 1 and the Command succeeded.
C24_Witness ==
    /\ Len(returned) = 1
    /\ \E k \in CheckedCalls : trace[k].op = "closeReceipt" /\ trace[k].result = 1
    /\ returned[1].response.success

\* C27: the description of every AtolDriverError a Response carries holds the
\* error table's message for the code the device reported, or the message for
\* an unknown error when the table has no entry.
C27_TranslatedByTable ==
    \A n \in 1..Len(returned) :
        LET r == returned[n].response IN
          r.data.kind = "error" =>
              Contains(get_error_message(r.data.error_code), r.data.error_description)

FailedFields ==
    { trace[k].op : k \in { j \in 1..Len(trace) :
                                "raised" \in DOMAIN trace[j] /\ trace[j].raised } }

FieldsOf(command) ==
    LET fs == IF command = "query_fn_info" THEN FnInfoFields ELSE RegistrationInfoFields
    IN  { fs[n].k : n \in 1..Len(fs) }

\* The optional, firmware-dependent fields: the two bitfields, the boolean
\* flags that depend on the version, fn_execution.
FirmwareDependent ==
    {"taxation_systems", "agent_types",
     "lottery_sign", "gambling_sign", "excise_sign", "machine_installation_sign",
     "trade_marked_products", "insurance_activity", "pawn_shop_activity",
     "vending", "catering", "wholesale",
     "fn_execution"}

\* The fields the device has for the query: all but the URI the FN does not
\* hold.
Available(command) ==
    FieldsOf(command) \ (IF locals.fn_contains_uri THEN {} ELSE {"fn_keys_updater_server_uri"})

\* C26: when the query call succeeded and only accessors of firmware-dependent
\* fields failed, the Response has success = true and its data holds every
\* field of the query but exactly those whose accessor failed.
C26_OptionalFieldOmitted ==
    \A n \in 1..Len(returned) :
        LET r == returned[n].response
            command == CommandNameOf(received[returned[n].msg])
        IN  (command \in FnQueries /\ FailedChecks = {} /\ FailedFields \subseteq FirmwareDependent) =>
                /\ r.success
                /\ r.data.kind = "dict"
                /\ r.data.fields = Available(command) \ FailedFields

\* The store was written after Command i had been handed over and before the
\* next one was.
StoreChangedAfter(i) == EventsOf(i, {"hset"}) # {}

\* C28: the cashier is resolved from the store as it is when the Command is
\* handled: when the store's cashier changed after the previous Command and the
\* current Command names no cashier in kwargs, the cashier it resolved is the
\* one the store holds now.
C28_ResolvedAnew ==
    (nmsgs >= 2 /\ StoreChangedAfter(nmsgs - 1) /\ CashierResolved /\ ~KwargsNamed
       /\ StoreHolds) =>
        /\ locals.cashier_name = StoredHash[Bytes("cashier_name")].s
        /\ locals.cashier_inn = StoredHash[Bytes("cashier_inn")].s

\* The kind of Python value the declared type of a TLV record stands for.
KindOfType(tag_type) ==
    CASE tag_type \in {4, 5, 6, 7} -> "int"
      [] tag_type = 3 -> "float"
      [] tag_type = 8 -> "str"
      [] tag_type = 10 -> "bool"
      [] OTHER -> "bytes"

\* C29: in read_fn_document, read_registration_document and
\* parse_complex_attribute alike, the value listed for a record whose typed
\* accessor did not fail is an integer for the declared types 4, 5, 6, 7, a
\* float for 3, a string for 8, a boolean for 10 and raw bytes for every other
\* type.
C29_AccessorByDeclaredType ==
    \A c \in {"read_fn_document", "read_registration_document", "parse_complex_attribute"} :
        ReadCommand = c =>
            \A n \in 1..Len(records) :
                n \notin rstate.typed_failed =>
                    /\ records[n].type = delivered[n].type
                    /\ records[n].tag_value.kind = KindOfType(delivered[n].type)

\* C29 witness: read_registration_document returned a float for a record of
\* type 3 and raw bytes for a record of type 9.
C29_Witness ==
    /\ pc = "return" /\ response.success /\ ReadCommand = "read_registration_document"
    /\ rstate.typed_failed = {}
    /\ Len(response.data.records) = 2
    /\ delivered[1].type = 3 /\ response.data.records[1].tag_value.kind = "float"
    /\ delivered[2].type = 9 /\ response.data.records[2].tag_value.kind = "bytes"

Selectors == {"DATA_TYPE", "FN_DATA_TYPE"}
QueryCalls == {"queryData", "fnQueryData"}

\* The device calls in the trace, the query calls and the accessors of fields
\* among them.
DeviceCalls == { k \in 1..Len(trace) : trace[k].ev = "call" }
QueriesMade == { k \in CheckedCalls : trace[k].op \in QueryCalls }
FieldReads == { k \in DeviceCalls : "raised" \in DOMAIN trace[k] }

\* C31: the first device call of a query is the setting of the data-type
\* selector; the query call is made once at most, after the selector; a field is
\* read only after the query call and only when that call did not fail; after
\* a failed query call no field is read and the Response has success = false;
\* and success = true is reported only after a query call that did not fail.
C31_SelectorQueryThenFields ==
    /\ \A k \in DeviceCalls :
          (\A j \in DeviceCalls : k <= j) => trace[k].op \in Selectors
    /\ Cardinality(QueriesMade) <= 1
    /\ \A k \in FieldReads :
          \E q \in QueriesMade : q < k /\ trace[q].result >= 0
    /\ \A q \in QueriesMade :
          trace[q].result < 0 =>
              /\ FieldReads = {}
              /\ ~response.success
              /\ \A n \in 1..Len(returned) : ~returned[n].response.success
    /\ response.success => \E q \in QueriesMade : trace[q].result >= 0

\* C31 witness: get_payment_sum has set the selector and its two parameters,
\* the query call returned 0, the field sum was read and the Command succeeded.
C31_Witness ==
    /\ Len(returned) = 1 /\ CommandNameOf(received[1]) = "get_payment_sum"
    /\ returned[1].response.success
    /\ returned[1].response.data = [kind |-> "dict", fields |-> {"sum"}]
    /\ \E q \in QueriesMade : trace[q].result = 0 /\ q = 5

(***************************************************************************)
(* Exceptions and success (SpecErrors)                                     *)
(***************************************************************************)
\* The returned Responses whose Command ended in process_command's except
\* clause: the clause replaced the message.
CaughtResponses == { n \in 1..Len(returned) : returned[n].response.message = "error" }

\* C32: a Response of a Command whose handler raised has success = false;
\* success = true is returned only when the handler ran to its end.
C32_SuccessOnlyWithoutRaise ==
    \A n \in CaughtResponses : ~returned[n].response.success

(***************************************************************************)
(* Multi-step handlers (SpecSteps)                                         *)
(***************************************************************************)
\* The calls _check_result makes to build the error of a failed call.
ErrorReads == {"errorDescription", "errorCode"}

\* How often the handler of message number i lists the checked call of op, and
\* how often the call was made for it.
Listed(i, op) ==
    LET obj == received[i].data.value.obj
        h == Handler(dict_get(obj, "command", None), dict_get(obj, "kwargs", EmptyDict))
    IN  Cardinality({ n \in 1..Len(h) : h[n] = Step("check", op) })

Made(i, op) == Cardinality({ k \in CheckedCalls : trace[k].msg = i /\ trace[k].op = op })

\* C33: after a checked call of a Command failed, the only device calls of
\* that Command are the two reads of the error (description and code): no later
\* statement of the handler runs and the Response has success = false; and no
\* operation is invoked more often than the handler lists it (no retry).
C33_StopsAtFirstFailure ==
    /\ \A k \in FailedChecks :
          /\ \A j \in (k + 1)..Len(trace) :
                (trace[j].msg = trace[k].msg /\ trace[j].ev = "call") =>
                    (j <= k + 2 /\ trace[j].op \in ErrorReads)
          /\ trace[k].msg = nmsgs => ~response.success
          /\ \A n \in 1..Len(returned) :
                returned[n].msg = trace[k].msg => ~returned[n].response.success
    /\ \A k \in CheckedCalls : Made(trace[k].msg, trace[k].op) <= Listed(trace[k].msg, trace[k].op)

\* C33 witness: shift_open stopped at a failed operatorLogin, without openShift
\* or checkDocumentClosed; then print_feed of three lines stopped at its second
\* feed.
C33_Witness ==
    /\ Len(returned) = 2
    /\ CommandNameOf(received[1]) = "shift_open" /\ CommandNameOf(received[2]) = "print_feed"
    /\ \E k \in FailedChecks : trace[k].msg = 1 /\ trace[k].op = "operatorLogin"
    /\ Made(1, "openShift") = 0 /\ Made(1, "checkDocumentClosed") = 0
    /\ Listed(2, "printText") = 3 /\ Made(2, "printText") = 2
    /\ \E k \in FailedChecks : trace[k].msg = 2

(***************************************************************************)
(* The ends of a record read (SpecRead)                                    *)
(***************************************************************************)
\* The last device call made.
LastCall == trace[Len(trace)]

\* The checked calls of op that failed.
FailedCallsOf(op) == { k \in FailedChecks : trace[k].op = op }

\* C34: once readNextRecord has answered a nonzero code, negative or positive,
\* the loop is over and no exception was raised for it: the next device
\* operation is endReadRecords, invoked once; when it succeeds the Command
\* returns success = true with the list of all the records delivered before;
\* the Command fails only when endReadRecords itself failed.
C34_NonzeroEndsDraining ==
    rstate.result # 0 =>
        /\ pc \in {"read_end", "except", "return"}
        /\ pc = "read_end" => (rstate.ended = 0 /\ exc = NoExc /\ LastCall.op = "readNextRecord")
        /\ pc # "read_end" =>
              /\ rstate.ended = 1
              /\ LastCall.op = "endReadRecords"
              /\ trace[Len(trace) - 2].op = "readNextRecord"
        /\ (pc \in {"except", "return"} /\ LastCall.result >= 0) =>
              /\ pc = "return" /\ response.success
              /\ response.data = [kind |-> "dict", records |-> records]
              /\ Len(records) = Len(delivered)
        /\ (pc = "return" /\ ~response.success) =>
              /\ FailedCallsOf("endReadRecords") # {}
              /\ response.data = to_dict(1)

\* C34 witness: read_fn_document got one record, then readNextRecord answered
\* -1; endReadRecords succeeded and the Command returned the one record.
C34_Witness ==
    /\ pc = "return" /\ ReadCommand = "read_fn_document"
    /\ rstate.result = -1 /\ Len(delivered) = 1
    /\ response.success /\ Len(response.data.records) = 1

\* C35: after beginReadRecords failed, neither readNextRecord nor
\* endReadRecords is invoked for the Command (nor any other device call but the
\* reads of the error), and the Response has success = false with the device's
\* error in data.
C35_BeginFailureStopsRead ==
    \A k \in FailedCallsOf("beginReadRecords") :
        /\ rstate.begun = 0 /\ rstate.ended = 0 /\ delivered = <<>>
        /\ \A j \in (k + 1)..Len(trace) :
              trace[j].ev = "call" => trace[j].op \notin {"readNextRecord", "endReadRecords"}
        /\ pc \in {"except", "return"}
        /\ ~response.success
        /\ pc = "except" => exc.type = "AtolDriverError"
        /\ pc = "return" => (response.data.kind = "error" /\ response.data.error_code = 1)

\* C35 witness: read_licenses returned the error of its failed beginReadRecords.
C35_Witness ==
    /\ pc = "return" /\ ReadCommand = "read_licenses"
    /\ FailedCallsOf("beginReadRecords") # {}
    /\ ~response.success /\ response.data.kind = "error"

(***************************************************************************)
(* Execution across devices (Spec)                                         *)
(***************************************************************************)
\* The Commands in execution: process_command was entered for the message and
\* has neither returned nor raised.
InExecution ==
    { m \in 1..nmsgs : EventsOf(m, {"enter"}) # {} /\ EventsOf(m, {"return", "raise"}) = {} }

\* The publications in the trace, in the order they were made.
Publications == SelectSeq(trace, LAMBDA e : e.ev = "publish")

PayloadDeviceId(i) == dict_get(received[i].data.value.obj, "device_id", "default")

\* The store reads in the trace.
StoreReads == { k \in 1..Len(trace) : trace[k].ev = "hgetall" }

\* C37: whatever device_id the payload carries, everything done for a message
\* is done by the worker and processor of the device on whose channel it
\* arrived, the Response goes to that device's response channel only, and a
\* processor exists only for a device whose channel brought a Command; the
\* payload's device_id ("default" when absent) shows in one place, the key of
\* the cashier lookup in the store.
C37_RoutedByChannelOnly ==
    /\ \A k \in 1..Len(trace) :
          /\ trace[k].dev = DeviceOf(trace[k].msg)
          /\ trace[k].ev = "publish" => trace[k].op = response_channel(DeviceOf(trace[k].msg))
          /\ k \in StoreReads => trace[k].op = cashier_key(PayloadDeviceId(trace[k].msg))
    /\ \A c \in Channels : \A k \in 1..Len(published[c]) :
          c = response_channel(DeviceOf(published[c][k].msg))
    /\ \A d \in Devices :
          /\ processor[d].exists => received[processor[d].by].channel = command_channel(d)
          /\ (\A i \in 1..nmsgs : received[i].channel # command_channel(d)) =>
                (~processor[d].exists /\ session[d] = NewSession)
    /\ pc \notin {"listen", "crashed"} => worker = DeviceOf(nmsgs)

\* C37 witness: a Command that arrived on d1's channel with device_id "d2" in
\* its payload was executed by d1's processor, looked its cashier up under
\* cashier:d2 and was answered on d1's response channel; d2 has no processor.
C37_Witness ==
    /\ nmsgs = 1 /\ pc = "listen"
    /\ received[1].channel = command_channel("d1")
    /\ PayloadDeviceId(1) = "d2"
    /\ \E k \in StoreReads : trace[k].dev = "d1" /\ trace[k].op = cashier_key("d2")
    /\ \E k \in EventsOf(1, {"call"}) : trace[k].dev = "d1"
    /\ Len(published[response_channel("d1")]) = 1
    /\ published[response_channel("d2")] = <<>>
    /\ processor["d1"].exists /\ ~processor["d2"].exists

(***************************************************************************)
(* The data of a failed Command (SpecQuery)                                *)
(***************************************************************************)
\* The keys of AtolDriverError.to_dict().
ErrorKeys == {"message", "error_code", "error_description"}

\* data is None, or the dict of an AtolDriverError and nothing else.
NullOrError(data) ==
    \/ data = NoData
    \/ data.kind = "error" /\ DOMAIN data = ErrorKeys \cup {"kind"}

\* C38: a Response with success = false carries no result data: its data is
\* None or the dict of the AtolDriverError, whatever the handler had read from
\* the device before it failed.
C38_FailedHasNoResultData ==
    /\ (pc = "return" /\ ~response.success) => NullOrError(response.data)
    /\ \A n \in 1..Len(returned) :
          ~returned[n].response.success => NullOrError(returned[n].response.data)

\* C38 witness: get_status had read two fields when the third accessor raised;
\* the Response has success = false and no data.
C38_Witness ==
    /\ Len(returned) = 1 /\ CommandNameOf(received[1]) = "get_status"
    /\ locals.data = {"model_name", "serial_number"}
    /\ ~returned[1].response.success
    /\ returned[1].response.data = NoData

(***************************************************************************)
(* The scan loop of read_last_document_journal (SpecJournalFair)           *)
(***************************************************************************)
\* The bytes the structures account for: 4 of header and the declared length,
\* for each.
RECURSIVE TotalSize(_)
TotalSize(structures) ==
    IF structures = <<>> THEN 0
    ELSE 4 + Head(structures).length + TotalSize(Tail(structures))

\* What holds of the scan at every moment: no index outside the list was used,
\* the position is inside the list or at its end, every structure has the
\* value its length declares, the structures fit in the input, and a Response
\* that reports success carries the structures and the whole input.
ScanInBounds ==
    /\ exc.type # "IndexError"
    /\ locals.pos <= Len(locals.tlv_list)
    /\ \A i \in 1..Len(locals.tlv_structures) :
          Len(locals.tlv_structures[i].value) = locals.tlv_structures[i].length
    /\ TotalSize(locals.tlv_structures) <= Len(locals.tlv_list)
    /\ TotalSize(locals.tlv_structures) <= locals.pos
    /\ \A n \in 1..Len(returned) :
          returned[n].response.success =>
              /\ returned[n].response.data.raw_bytes = session[worker].journal
              /\ returned[n].response.data.tlv_structures = locals.tlv_structures

\* A step of the scan: the position does not go back, and an iteration that
\* appends a structure moves it by 4 and the length of the value.
ScanAdvances ==
    /\ locals'.pos >= locals.pos
    /\ locals'.tlv_structures # locals.tlv_structures =>
          /\ Len(locals'.tlv_structures) = Len(locals.tlv_structures) + 1
          /\ locals'.pos >= locals.pos + 4
          /\ locals'.pos =
                locals.pos + 4 + locals'.tlv_structures[Len(locals'.tlv_structures)].length

\* C39: for every byte array the device hands out the scan loop ends and the
\* Command returns; the read position never decreases and moves by at least 4
\* in every completed iteration; no byte outside the input is read; every
\* structure has a value of its declared length; the structures take no more
\* bytes than the input has; and raw_bytes is the whole input, dropped
\* trailing bytes included.
C39_ScanTerminatesInBounds ==
    /\ []ScanInBounds
    /\ [][ScanAdvances]_vars
    /\ <>(pc = "idle" /\ Len(returned) = 1)

\* C39 witness: the Command returned two structures parsed from an input that
\* has further bytes after them, which raw_bytes keeps.
C39_Witness ==
    /\ pc = "idle" /\ Len(returned) = 1
    /\ returned[1].response.success
    /\ Len(returned[1].response.data.tlv_structures) = 2
    /\ Len(returned[1].response.data.raw_bytes)
         > TotalSize(returned[1].response.data.tlv_structures)
    /\ returned[1].response.data.raw_bytes = session["d1"].journal

(***************************************************************************)
(* Bus events that are not messages (Spec)                                 *)
(***************************************************************************)
\* The bus events received so far whose type is not "message".
NonMessages == { i \in 1..Len(received) : received[i].type # "message" }

\* Nothing bears the mark of event number i: no Response, no entry of the
\* processor (so no device call, no return, no raise), no logged error, no
\* processor created for it.
LeftNoMark(i) ==
    /\ PublishedFor(i) = {}
    /\ \A k \in 1..Len(trace) : trace[k].msg # i
    /\ \A k \in 1..Len(errlog) : errlog[k][1] # i
    /\ \A d \in Devices : processor[d].exists => processor[d].by # i

\* The step process_message takes for the event in hand leaves everything as
\* it was and hands control back to the loop of listen_to_redis.
ReturnsAtOnce ==
    /\ pc' = "listen"
    /\ UNCHANGED <<running, nmsgs, received, message, worker, processor, published, errlog>>
    /\ UNCHANGED procVars
    /\ UNCHANGED <<readVars, envVars>>

\* C40: a bus event on a device's command channel whose type is not "message"
\* (a subscription confirmation) has no effect: process_message returns at
\* once without changing anything, so no Response is published for it, no
\* CommandProcessor is created, no device call is made and nothing is logged.
C40_NonMessageHasNoEffect ==
    /\ [](\A i \in NonMessages : LeftNoMark(i))
    /\ [][(pc = "process_message" /\ message.type # "message") => ReturnsAtOnce]_vars

\* C40 witness: a subscription confirmation on d1's channel was taken and
\* dropped, d1 still without a processor; the Command that followed it on the
\* same channel was executed and answered.
C40_Witness ==
    /\ nmsgs = 2 /\ pc = "listen"
    /\ received[1] = [type |-> "subscribe", channel |-> command_channel("d1"),
                      data |-> SubscriptionCount]
    /\ LeftNoMark(1)
    /\ received[2].type = "message" /\ received[2].channel = command_channel("d1")
    /\ processor["d1"].exists /\ processor["d1"].by = 2
    /\ Len(published[response_channel("d1")]) = 1
    /\ published[response_channel("d1")][1].msg = 2

====
